---------------------------- MODULE Spec2Model ----------------------------
(***************************************************************************)
(* Sprint-Summary-Agent: the per-entity processing pipeline of main        *)
(* (calculateMetrics, analyzeSprintHealth, extractAccomplishments,         *)
(* generateRecommendations with its rule-table fallback), the aggregator   *)
(* generateCombinedSummary and generateFilename; and a whole run of main:  *)
(* loadConfig, createLLMProvider, collectAllSprintData with its tracker    *)
(* requests, the loop over the entities, the combined summary, the         *)
(* presentation and the exit code.                                         *)
(*                                                                         *)
(* Representation.  A JavaScript string is a TLA+ string when it is only   *)
(* compared, and a sequence of one-character strings (UTF-16 code units)   *)
(* when the code edits it.  A percentage is an integer number of tenths of *)
(* a percent: 60.0 is 600, the threshold "< 80" is "< 800".                *)
(***************************************************************************)
EXTENDS Integers, Sequences, FiniteSets, TLC

VARIABLES
    pc,               \* position of the control flow
    issues,           \* sprintData.issues, as returned by the tracker
    metrics,          \* result of calculateMetrics (valid once pc # "start")
    healthAnalysis,   \* result of analyzeSprintHealth
    accomplishments,  \* result of extractAccomplishments
    llmReply,         \* outcome of the provider call generateRecommendations awaits
    llmCalls,         \* number of generateCompletion calls issued
    recommendations,  \* result of generateRecommendations
    allSummaries,     \* input of generateCombinedSummary
    combinedSummary,  \* result of generateCombinedSummary
    summary,          \* identifiers of the entity in hand: project key, team label
    written,          \* names of the files written so far, in order
    env,              \* process.env: the settings main is started with
    config,           \* the Config object loadConfig returns
    llmProvider,      \* the provider createLLMProvider built
    teamsToProcess,   \* collectAllSprintData: the team labels to collect
    collect,          \* locals of the team collection in progress
    allSprintData,    \* result of collectAllSprintData
    allMetrics,       \* main: the metrics of the entities processed so far
    cursor,           \* main: number of entities the for loop has taken up
    jiraCalls,        \* number of requests JiraClient.request has issued
    outstanding,      \* network requests issued and not yet settled
    log,              \* console.warn / console.log lines about skipped teams
    slides,           \* slides added to the presentation, in order
    exitCode,         \* exit status of the process (none while it runs)
    errorMessage      \* message main's catch block prints

\* What only main and collectAllSprintData change.
runVars == <<env, config, llmProvider, teamsToProcess, collect, allSprintData,
             cursor, jiraCalls, log, slides, exitCode, errorMessage>>

vars == <<pc, issues, metrics, healthAnalysis, accomplishments, llmReply,
          llmCalls, recommendations, allSummaries, combinedSummary,
          summary, written, allMetrics, outstanding, runVars>>

-----------------------------------------------------------------------------
(* Bounds of the model *)

MaxIssues == 3          \* longest issue list of the metrics specification

-----------------------------------------------------------------------------
(* Generic helpers *)

RECURSIVE SeqsUpTo(_, _)
SeqsUpTo(S, n) ==
    IF n = 0 THEN {<<>>}
    ELSE LET shorter == SeqsUpTo(S, n - 1)
         IN  shorter \cup {Append(s, x) : s \in {t \in shorter : Len(t) = n - 1}, x \in S}

RECURSIVE SumSeq(_)
SumSeq(s) == IF s = <<>> THEN 0 ELSE Head(s) + SumSeq(Tail(s))

Take(s, n) == SubSeq(s, 1, IF Len(s) < n THEN Len(s) ELSE n)

\* Number.prototype.toFixed(1) of (num / den) * 100, in tenths of a percent:
\* the nearest tenth, the larger one on a tie.
ToFixed1(num, den) == (2000 * num + den) \div (2 * den)

-----------------------------------------------------------------------------
(* Issues *)

StatusCategoryNames == {"Done", "In Progress", "indeterminate", "To Do", "No Category"}

\* String.prototype.toLowerCase on the status category names of the model.
ToLowerCase(name) ==
    CASE name = "Done"        -> "done"
      [] name = "In Progress" -> "in progress"
      [] name = "To Do"       -> "to do"
      [] name = "No Category" -> "no category"
      [] OTHER                -> name

PriorityNames == {"Highest", "High", "Medium", "Low", "Lowest", "Critical"}
NoPriority == "<absent>"       \* issue.fields.priority is null

\* issue.fields.status.name.toLowerCase().includes('block')
StatusNames == {"Open", "Blocked", "BLOCKED - vendor", "Closed"}
IncludesBlock(statusName) == statusName \in {"Blocked", "BLOCKED - vendor"}

\* An issue: key, status category and name, label set, priority and the two
\* story-point custom fields (0 stands for an absent or zero value: both falsy).
Issue(key, cat, sname, labels, prio, cf20826, cf10016) ==
    [key |-> key, statusCategory |-> cat, statusName |-> sname, labels |-> labels,
     priority |-> prio, customfield_20826 |-> cf20826, customfield_10016 |-> cf10016]

\* The tracker numbers the issues of a list: the key of the i-th is i.
Keyed(s) == [i \in 1..Len(s) |-> [s[i] EXCEPT !.key = i]]

-----------------------------------------------------------------------------
(* SprintDataCollector.calculateMetrics *)

\* issue.fields.customfield_20826 || issue.fields.customfield_10016 || 0
StoryPoints(issue) ==
    IF issue.customfield_20826 # 0 THEN issue.customfield_20826
    ELSE IF issue.customfield_10016 # 0 THEN issue.customfield_10016
    ELSE 0

\* A classification that knows 'to do' and drops any other category.
StatusBucketDropsUnknown(issue) ==
    LET status == ToLowerCase(issue.statusCategory)
    IN  IF status = "done" THEN "completed"
        ELSE IF status = "in progress" \/ status = "indeterminate" THEN "inProgress"
        ELSE IF status = "to do" THEN "todo"
        ELSE "none"

\* The if / else if / else on the lower-cased status category name.
StatusBucket(issue) ==
    LET status == ToLowerCase(issue.statusCategory)
    IN  IF status = "done" THEN "completed"
        ELSE IF status = "in progress" \/ status = "indeterminate" THEN "inProgress"
        ELSE "todo"

\* A blocker check placed in the else branches only: a done issue is never blocked.
IsBlockedUnlessDone(issue) ==
    /\ ToLowerCase(issue.statusCategory) # "done"
    /\ ("blocked" \in issue.labels \/ IncludesBlock(issue.statusName))

\* issue.fields.labels?.includes('blocked') || status name includes 'block'
IsBlocked(issue) == "blocked" \in issue.labels \/ IncludesBlock(issue.statusName)

InBucket(iss, b) == SelectSeq(iss, LAMBDA i : StatusBucket(i) = b)

\* The completion rate truncated instead of rounded.
CompletionRateOfTruncated(completed, total) ==
    IF total > 0 THEN (1000 * completed) \div total ELSE 0

\* issues.length > 0 ? parseFloat(((completed / issues.length) * 100).toFixed(1)) : 0
CompletionRateOf(completed, total) ==
    IF total > 0 THEN ToFixed1(completed, total) ELSE 0

\* The quotient without its guard: 0 / 0 is NaN, written -1.
VelocityPercentageOfUnguarded(completed, total) ==
    IF total = 0 THEN -1 ELSE ToFixed1(completed, total)

\* "Calculate velocity based on issues (not story points)": the same quotient.
VelocityPercentageOf(completed, total) ==
    IF total > 0 THEN ToFixed1(completed, total) ELSE 0

calculateMetrics(iss) ==
    LET completed  == InBucket(iss, "completed")
        inProgress == InBucket(iss, "inProgress")
        todo       == InBucket(iss, "todo")
        blocked    == SelectSeq(iss, IsBlocked)
    IN  [totalIssues          |-> Len(iss),
         completedIssues      |-> Len(completed),
         inProgressIssues     |-> Len(inProgress),
         todoIssues           |-> Len(todo),
         blockedIssues        |-> Len(blocked),
         totalStoryPoints     |-> SumSeq([i \in 1..Len(iss) |-> StoryPoints(iss[i])]),
         completedStoryPoints |-> SumSeq([i \in 1..Len(completed) |-> StoryPoints(completed[i])]),
         velocity             |-> Len(completed),
         velocityPercentage   |-> VelocityPercentageOf(Len(completed), Len(iss)),
         completionRate       |-> CompletionRateOf(Len(completed), Len(iss)),
         statusGroups         |-> [completed |-> completed, inProgress |-> inProgress,
                                   todo |-> todo, blocked |-> blocked]]

\* main: const metrics = dataCollector.calculateMetrics(sprintData)
CalculateMetrics ==
    /\ pc = "start"
    /\ metrics' = calculateMetrics(issues)
    /\ pc' = "metrics"
    /\ UNCHANGED <<issues, healthAnalysis, accomplishments, llmReply, llmCalls,
                   recommendations, allSummaries, combinedSummary, summary, written>>
    /\ UNCHANGED <<allMetrics, outstanding, runVars>>

-----------------------------------------------------------------------------
(* Values of the variables an operation has not yet set *)

NoMetrics ==
    [totalIssues |-> 0, completedIssues |-> 0, inProgressIssues |-> 0, todoIssues |-> 0,
     blockedIssues |-> 0, totalStoryPoints |-> 0, completedStoryPoints |-> 0,
     velocity |-> 0, velocityPercentage |-> 0, completionRate |-> 0,
     statusGroups |-> [completed |-> <<>>, inProgress |-> <<>>, todo |-> <<>>,
                       blocked |-> <<>>]]
NoHealth == [overallHealth |-> "Good", healthIndicators |-> <<>>]
NoReply == [kind |-> "none", text |-> <<>>]
NoSummary == [projectKey |-> <<>>, teamLabel |-> <<>>]

NoEnv ==
    [JIRA_HOST |-> "", JIRA_EMAIL |-> "", JIRA_API_TOKEN |-> "", JIRA_PROJECT_KEYS |-> <<>>,
     JIRA_PROJECT_KEY |-> <<>>, TEAM_LABELS |-> <<>>, GENERATE_COMBINED_SUMMARY |-> "",
     LLM_PROVIDER |-> <<>>, LLM_MODEL |-> ""]
NoConfig ==
    [host |-> "", email |-> "", apiToken |-> "", projectKeys |-> <<>>, teamLabels |-> <<>>,
     generateCombinedSummary |-> FALSE, llmProvider |-> <<>>, llmModel |-> ""]
NoProvider == [backend |-> "none", model |-> ""]
NoSprint == [id |-> 0, name |-> <<>>, state |-> "none", endDate |-> 0]
NoCollect ==
    [team |-> 0, project |-> 0, board |-> 0, allBoards |-> <<>>, matching |-> <<>>,
     sprint |-> NoSprint, projectKey |-> "", issues |-> <<>>, discovered |-> <<>>,
     call |-> "none"]
NoExit == -1
NoMessage == [text |-> "", detail |-> <<>>]

\* The variables of a run before main has set them.
InitRun ==
    /\ env = NoEnv
    /\ config = NoConfig
    /\ llmProvider = NoProvider
    /\ teamsToProcess = <<>>
    /\ collect = NoCollect
    /\ allSprintData = <<>>
    /\ allMetrics = <<>>
    /\ cursor = 0
    /\ jiraCalls = 0
    /\ outstanding = 0
    /\ log = <<>>
    /\ slides = <<>>
    /\ exitCode = NoExit
    /\ errorMessage = NoMessage

InitOutputs ==
    /\ healthAnalysis = NoHealth
    /\ accomplishments = <<>>
    /\ llmReply = NoReply
    /\ llmCalls = 0
    /\ recommendations = <<>>
    /\ combinedSummary = <<>>
    /\ written = <<>>
    /\ InitRun

-----------------------------------------------------------------------------
(* Specification of calculateMetrics over every bounded issue list *)

MetricIssues ==
    {Issue(0, c, "Open", {}, "Medium", a, b) :
        c \in StatusCategoryNames, a \in {0, 2}, b \in {0, 1}}

InitMetrics ==
    /\ pc = "start"
    /\ issues \in {Keyed(s) : s \in SeqsUpTo(MetricIssues, MaxIssues)}
    /\ metrics = NoMetrics
    /\ allSummaries = <<>>
    /\ summary = NoSummary
    /\ InitOutputs

NextMetrics == CalculateMetrics

SpecMetrics == InitMetrics /\ [][NextMetrics]_vars

\* C1: after calculateMetrics, completed + in-progress + not-started equals the
\* number of issues, every issue lies in exactly one of the three buckets (any
\* category other than done / in progress in not-started), and the completion
\* rate lies between 0 and 100.
C1_BucketsPartition ==
    pc = "metrics" =>
        /\ metrics.completedIssues + metrics.inProgressIssues + metrics.todoIssues
               = metrics.totalIssues
        /\ metrics.totalIssues = Len(issues)
        /\ \A i \in 1..Len(issues) :
              LET where == {g \in {"completed", "inProgress", "todo"} :
                              \E j \in 1..Len(metrics.statusGroups[g]) :
                                  metrics.statusGroups[g][j] = issues[i]}
              IN  /\ Cardinality(where) = 1
                  /\ issues[i].statusCategory \in {"To Do", "No Category"}
                        => where = {"todo"}
        /\ metrics.completionRate >= 0
        /\ metrics.completionRate <= 1000

C1_Witness ==
    /\ pc = "metrics"
    /\ metrics.totalIssues = 3
    /\ metrics.completedIssues = 1
    /\ metrics.inProgressIssues = 1
    /\ metrics.todoIssues = 1
    /\ \E i \in 1..Len(issues) : issues[i].statusCategory = "No Category"

\* C2: velocityPercentage is completed story points / total story points x 100
\* (to the nearest tenth), and zero when the total story points is zero.
C2_VelocityFromStoryPoints ==
    pc = "metrics" =>
        LET v == metrics.velocityPercentage
            t == metrics.totalStoryPoints
            c == metrics.completedStoryPoints
        IN  IF t = 0 THEN v = 0
            ELSE /\ 2 * (v * t - 1000 * c) <= t
                 /\ 2 * (1000 * c - v * t) <= t

\* C3: whenever totalIssues > 0, completionRate is completedIssues / totalIssues
\* x 100 to the nearest tenth of a percent (one fractional digit); 6 of 10 is 60.0.
C3_CompletionRate ==
    /\ CompletionRateOf(6, 10) = 600
    /\ (pc = "metrics" /\ metrics.totalIssues > 0) =>
          LET r == metrics.completionRate
              n == metrics.totalIssues
              c == metrics.completedIssues
          IN  /\ 2 * (r * n - 1000 * c) <= n
              /\ 2 * (1000 * c - r * n) <= n

C3_Witness ==
    /\ pc = "metrics"
    /\ metrics.totalIssues = 3
    /\ metrics.completedIssues = 2
    /\ metrics.completionRate = 667

\* C18: for an empty issue list calculateMetrics returns (it raises nothing)
\* with zero for the five counts, for both story-point sums and for both rates.
C18_EmptyIssueList ==
    (pc = "metrics" /\ issues = <<>>) =>
        /\ metrics.totalIssues = 0
        /\ metrics.completedIssues = 0
        /\ metrics.inProgressIssues = 0
        /\ metrics.todoIssues = 0
        /\ metrics.blockedIssues = 0
        /\ metrics.totalStoryPoints = 0
        /\ metrics.completedStoryPoints = 0
        /\ metrics.completionRate = 0
        /\ metrics.velocityPercentage = 0

C18_Witness ==
    /\ pc = "metrics"
    /\ issues = <<>>
    /\ metrics.totalIssues = 0
    /\ metrics.statusGroups.completed = <<>>

-----------------------------------------------------------------------------
(* SprintDataCollector.analyzeSprintHealth *)

\* The status of a percentage indicator: < 60 Poor, < 80 Fair, else Good.
RateStatus(rate) == IF rate < 600 THEN "Poor" ELSE IF rate < 800 THEN "Fair" ELSE "Good"

\* overallHealth after one percentage check: 'Poor' is assigned outright,
\* 'Fair' only over 'Good'.
HealthAfterRate(overall, rate) ==
    IF rate < 600 THEN "Poor"
    ELSE IF rate < 800 THEN (IF overall = "Good" THEN "Fair" ELSE overall)
    ELSE overall

\* A blocker check that assigns 'Fair' whatever the rating was.
HealthAfterBlockersUnguarded(overall, blocked) ==
    IF blocked > 0 THEN "Fair" ELSE overall

\* if (metrics.blockedIssues > 0) { ...; if (overallHealth === 'Good') overallHealth = 'Fair'; }
HealthAfterBlockers(overall, blocked) ==
    IF blocked > 0 /\ overall = "Good" THEN "Fair" ELSE overall

VelocityIndicator(m) ==
    [indicator |-> "Velocity", status |-> RateStatus(m.velocityPercentage),
     message |-> IF m.velocityPercentage < 600
                 THEN <<"Only ", m.velocityPercentage, "% of story points completed">>
                 ELSE <<m.velocityPercentage, "% of story points completed">>]

CompletionIndicator(m) ==
    [indicator |-> "Completion Rate", status |-> RateStatus(m.completionRate),
     message |-> IF m.completionRate < 600
                 THEN <<"Only ", m.completionRate, "% of issues completed">>
                 ELSE <<m.completionRate, "% of issues completed">>]

BlockersIndicator(m) ==
    [indicator |-> "Blockers", status |-> "Warning",
     message |-> <<m.blockedIssues, " blocked issue(s) detected">>]

WipIndicator ==
    [indicator |-> "Work in Progress", status |-> "Warning",
     message |-> <<"More issues in progress than completed">>]

\* An in-progress check that lowers a 'Good' rating like the blocker check does.
analyzeSprintHealthWipLowers(m) ==
    LET afterVelocity   == HealthAfterRate("Good", m.velocityPercentage)
        afterCompletion == HealthAfterRate(afterVelocity, m.completionRate)
        afterBlockers   == HealthAfterBlockers(afterCompletion, m.blockedIssues)
        wip             == m.inProgressIssues > m.completedIssues
    IN  [overallHealth    |-> IF wip /\ afterBlockers = "Good" THEN "Fair" ELSE afterBlockers,
         healthIndicators |->
             <<VelocityIndicator(m), CompletionIndicator(m)>>
             \o (IF m.blockedIssues > 0 THEN <<BlockersIndicator(m)>> ELSE <<>>)
             \o (IF wip THEN <<WipIndicator>> ELSE <<>>)]

analyzeSprintHealth(m) ==
    LET afterVelocity   == HealthAfterRate("Good", m.velocityPercentage)
        afterCompletion == HealthAfterRate(afterVelocity, m.completionRate)
        afterBlockers   == HealthAfterBlockers(afterCompletion, m.blockedIssues)
    IN  [overallHealth    |-> afterBlockers,
         healthIndicators |->
             <<VelocityIndicator(m), CompletionIndicator(m)>>
             \o (IF m.blockedIssues > 0 THEN <<BlockersIndicator(m)>> ELSE <<>>)
             \o (IF m.inProgressIssues > m.completedIssues THEN <<WipIndicator>> ELSE <<>>)]

\* main: const healthAnalysis = dataCollector.analyzeSprintHealth(metrics)
AnalyzeSprintHealth ==
    /\ pc = "metrics"
    /\ healthAnalysis' = analyzeSprintHealth(metrics)
    /\ pc' = "health"
    /\ UNCHANGED <<issues, metrics, accomplishments, llmReply, llmCalls,
                   recommendations, allSummaries, combinedSummary, summary, written>>
    /\ UNCHANGED <<allMetrics, outstanding, runVars>>

-----------------------------------------------------------------------------
(* Specification of analyzeSprintHealth over sampled metrics records *)

MaxBlocked == 1         \* largest blocked count of a sampled metrics record
MaxCount == 1           \* largest in-progress / completed / not-started count

\* Percentages around the two thresholds, in tenths.
RateSamples == {0, 500, 599, 600, 700, 799, 800, 850, 900, 1000}

HealthMetrics ==
    {[NoMetrics EXCEPT !.velocityPercentage = v, !.completionRate = c,
                       !.blockedIssues = b, !.inProgressIssues = w,
                       !.completedIssues = d] :
        v \in RateSamples, c \in RateSamples, b \in 0..MaxBlocked,
        w \in 0..MaxCount, d \in 0..MaxCount}

InitHealth ==
    /\ pc = "metrics"
    /\ issues = <<>>
    /\ metrics \in HealthMetrics
    /\ allSummaries = <<>>
    /\ summary = NoSummary
    /\ InitOutputs

NextHealth == AnalyzeSprintHealth

SpecHealth == InitHealth /\ [][NextHealth]_vars

\* C4: the overall rating is Poor iff velocityPercentage < 60 or completionRate
\* < 60; otherwise Fair iff velocityPercentage < 80 or completionRate < 80 or
\* blockedIssues > 0; otherwise Good.
C4_WorstWins ==
    pc = "health" =>
        LET v == metrics.velocityPercentage
            c == metrics.completionRate
            b == metrics.blockedIssues
            h == healthAnalysis.overallHealth
            poor == v < 600 \/ c < 600
            fair == v < 800 \/ c < 800 \/ b > 0
        IN  /\ h \in {"Good", "Fair", "Poor"}
            /\ h = "Poor" <=> poor
            /\ h = "Fair" <=> (~poor /\ fair)
            /\ h = "Good" <=> (~poor /\ ~fair)
            /\ (v = 850 /\ c = 900 /\ b = 0) => h = "Good"

\* A Poor velocity with a Good completion rate and a blocker stays Poor.
C4_Witness ==
    /\ pc = "health"
    /\ metrics.velocityPercentage = 500
    /\ metrics.completionRate = 900
    /\ metrics.blockedIssues > 0
    /\ healthAnalysis.overallHealth = "Poor"

-----------------------------------------------------------------------------
(* LLMRecommendationsGenerator.generateFallbackRecommendations *)

\* A recommendation text: the fixed wording and the number interpolated in it.
Wording(text, n) == [text |-> text, n |-> n]

Rec(category, priority, recommendation) ==
    [category |-> category, priority |-> priority, recommendation |-> recommendation]

VelocityRec ==
    Rec("Velocity", "High",
        Wording("Consider reducing sprint commitment or identifying impediments affecting team velocity", 0))
BlockersRec(m) ==
    Rec("Blockers", "High",
        Wording("Address N blocked issue(s) immediately to prevent future sprint delays", m.blockedIssues))
WipRec ==
    Rec("WIP Limit", "Medium",
        Wording("Too much work in progress. Consider implementing WIP limits to improve flow", 0))
PlanningRec(m) ==
    Rec("Sprint Planning", "Medium",
        Wording("N issue(s) not started. Review sprint planning and capacity", m.todoIssues))
GeneralRec ==
    Rec("General", "Low",
        Wording("Sprint executed well. Continue current practices and look for incremental improvements", 0))

\* The rule table with the blocker rule evaluated before the velocity rule.
generateFallbackRecommendationsReordered(m) ==
    LET fired ==
            (IF m.blockedIssues > 0 THEN <<BlockersRec(m)>> ELSE <<>>)
            \o (IF m.velocityPercentage < 800 THEN <<VelocityRec>> ELSE <<>>)
            \o (IF m.inProgressIssues > m.completedIssues THEN <<WipRec>> ELSE <<>>)
            \o (IF m.todoIssues > 0 THEN <<PlanningRec(m)>> ELSE <<>>)
    IN  IF Len(fired) = 0 THEN <<GeneralRec>> ELSE fired

\* The closing rule without its test of recommendations.length.
generateFallbackRecommendationsAlwaysGeneral(m) ==
    (IF m.velocityPercentage < 800 THEN <<VelocityRec>> ELSE <<>>)
        \o (IF m.blockedIssues > 0 THEN <<BlockersRec(m)>> ELSE <<>>)
        \o (IF m.inProgressIssues > m.completedIssues THEN <<WipRec>> ELSE <<>>)
        \o (IF m.todoIssues > 0 THEN <<PlanningRec(m)>> ELSE <<>>)
        \o <<GeneralRec>>

generateFallbackRecommendations(m) ==
    LET fired ==
            (IF m.velocityPercentage < 800 THEN <<VelocityRec>> ELSE <<>>)
            \o (IF m.blockedIssues > 0 THEN <<BlockersRec(m)>> ELSE <<>>)
            \o (IF m.inProgressIssues > m.completedIssues THEN <<WipRec>> ELSE <<>>)
            \o (IF m.todoIssues > 0 THEN <<PlanningRec(m)>> ELSE <<>>)
    IN  IF Len(fired) = 0 THEN <<GeneralRec>> ELSE fired

-----------------------------------------------------------------------------
(* The provider's answer and LLMRecommendationsGenerator.parseRecommendations *)

\* The text of an answer is a sequence of tokens: a code-fence marker ```, the
\* word json, white space, prose (anything JSON.parse rejects) or one JSON value.
NoValue == [type |-> "none"]
Fence == [kind |-> "fence", value |-> NoValue]
JsonWord == [kind |-> "json", value |-> NoValue]
Space == [kind |-> "space", value |-> NoValue]
Prose == [kind |-> "prose", value |-> NoValue]
ValueToken(v) == [kind |-> "value", value |-> v]

\* JSON values: null, an object with the three fields ("" for an absent or
\* empty one: both falsy), an array of such items.
JsonNull == [type |-> "null"]
JsonObject(c, p, r) == [type |-> "object", category |-> c, priority |-> p, recommendation |-> r]
JsonArray(items) == [type |-> "array", items |-> items]

RECURSIVE TrimStart(_)
TrimStart(s) == IF s # <<>> /\ Head(s) = Space THEN TrimStart(Tail(s)) ELSE s
RECURSIVE TrimEnd(_)
TrimEnd(s) ==
    IF s # <<>> /\ s[Len(s)] = Space THEN TrimEnd(SubSeq(s, 1, Len(s) - 1)) ELSE s
\* String.prototype.trim
Trim(s) == TrimEnd(TrimStart(s))

\* The three code-fence removals, in the order of the code.
StripFences(text) ==
    LET c0 == Trim(text)
        c1 == IF Len(c0) >= 2 /\ c0[1] = Fence /\ c0[2] = JsonWord
              THEN SubSeq(c0, 3, Len(c0)) ELSE c0
        c2 == IF Len(c1) >= 1 /\ c1[1] = Fence THEN Tail(c1) ELSE c1
        c3 == IF Len(c2) >= 1 /\ c2[Len(c2)] = Fence
              THEN SubSeq(c2, 1, Len(c2) - 1) ELSE c2
    IN  Trim(c3)

\* JSON.parse accepts exactly one value, white space around it allowed.
JsonParses(cleaned) == Len(cleaned) = 1 /\ cleaned[1].kind = "value"

\* rec => ({category: rec.category || 'General', priority: rec.priority ||
\* 'Medium', recommendation: rec.recommendation || ''})
WithDefaults(item) ==
    Rec(IF item.category = "" THEN "General" ELSE item.category,
        IF item.priority = "" THEN "Medium" ELSE item.priority,
        Wording(item.recommendation, 0))

Threw == [ok |-> FALSE, value |-> <<>>]
Returned(v) == [ok |-> TRUE, value |-> v]

\* Returns the list, or throws: JSON.parse's SyntaxError, 'Response is not an
\* array', or the TypeError of reading a field of null.
parseRecommendations(text) ==
    LET cleaned == StripFences(text)
    IN  IF ~JsonParses(cleaned) THEN Threw
        ELSE LET v == cleaned[1].value
             IN  IF v.type # "array" THEN Threw
                 ELSE IF \E i \in 1..Len(v.items) : v.items[i].type = "null" THEN Threw
                 ELSE Returned([i \in 1..Len(v.items) |-> WithDefaults(v.items[i])])

-----------------------------------------------------------------------------
(* LLMRecommendationsGenerator.generateRecommendations *)

\* What the awaited generateCompletion call settles to: a rejection (transport
\* error, non-success status, a body that is not JSON, a body without
\* choices[0].message.content), a content that is no string, or a text.
ErrorReply(why) == [kind |-> why, text |-> <<>>]
TextReply(text) == [kind |-> "text", text |-> text]
ErrorKinds == {"transport", "status", "body", "shape", "nontext"}

\* The continuation with the try block closed before the parse.
SettleRecommendationsParseUncaught(reply, m) ==
    IF reply.kind \in ErrorKinds
    THEN Returned(generateFallbackRecommendations(m))
    ELSE parseRecommendations(reply.text)

\* The continuation of generateRecommendations after the await: the value it
\* returns (ok) or the error that escapes it (~ok).
SettleRecommendations(reply, m) ==
    IF reply.kind \in ErrorKinds
    THEN Returned(generateFallbackRecommendations(m))
    ELSE LET parsed == parseRecommendations(reply.text)
         IN  IF parsed.ok THEN parsed
             ELSE Returned(generateFallbackRecommendations(m))

\* A fetch that is not awaited: the caller goes on while it is outstanding.
SettledNotAwaited(n) == n

\* await fetch(...): the caller resumes when the request has settled.
Settled(n) == n - 1

\* generateRecommendations up to its await.
RequestRecommendations ==
    /\ pc = "extracted"
    /\ llmCalls' = llmCalls + 1     \* this.llmProvider.generateCompletion(prompt, 1024)
    /\ outstanding' = outstanding + 1          \* the provider's fetch
    /\ pc' = "awaiting"
    /\ UNCHANGED <<issues, metrics, healthAnalysis, accomplishments, llmReply,
                   recommendations, allSummaries, combinedSummary, summary, written>>
    /\ UNCHANGED <<allMetrics, runVars>>

MaxRecs == 2            \* longest JSON array of an answer

ArrayItems == {JsonObject("Team Health", "High", "Pair up"), JsonObject("", "", ""), JsonNull}
JsonValues ==
    {JsonArray(items) : items \in SeqsUpTo(ArrayItems, MaxRecs)}
        \cup {JsonObject("Velocity", "High", "Commit less")}
Leads == {<<>>, <<Fence, JsonWord>>, <<Fence>>, <<Space, Fence, JsonWord, Space>>,
          <<JsonWord>>, <<Prose>>, <<Space>>}
Trails == {<<>>, <<Fence>>, <<Space, Fence, Space>>, <<Prose>>}
Replies ==
    {ErrorReply(why) : why \in ErrorKinds}
        \cup {TextReply(lead \o <<ValueToken(v)>> \o trail) :
                 lead \in Leads, v \in JsonValues, trail \in Trails}
        \cup {TextReply(<<Prose>>), TextReply(<<>>)}

\* The await settles with one of the replies and generateRecommendations
\* returns or throws.
ReceiveFrom(replies) ==
    /\ pc = "awaiting"
    /\ \E reply \in replies :
          LET outcome == SettleRecommendations(reply, metrics)
          IN  /\ llmReply' = reply
              /\ recommendations' = outcome.value
              /\ pc' = IF outcome.ok THEN "recommended" ELSE "failed"
    /\ outstanding' = Settled(outstanding)
    /\ UNCHANGED <<issues, metrics, healthAnalysis, accomplishments, llmCalls,
                   allSummaries, combinedSummary, summary, written>>
    /\ UNCHANGED <<allMetrics, runVars>>

ReceiveRecommendations == ReceiveFrom(Replies)

-----------------------------------------------------------------------------
(* Specification of generateRecommendations over sampled metrics and answers *)

\* velocityPercentage=50, blockedIssues=2, inProgressIssues=5,
\* completedIssues=3, todoIssues=1
ExampleMetrics ==
    [NoMetrics EXCEPT !.velocityPercentage = 500, !.completionRate = 500,
                      !.blockedIssues = 2, !.inProgressIssues = 5,
                      !.completedIssues = 3, !.todoIssues = 1, !.totalIssues = 9]

RecommendMetrics ==
    {[NoMetrics EXCEPT !.velocityPercentage = v, !.completionRate = v,
                       !.blockedIssues = b, !.inProgressIssues = w,
                       !.completedIssues = d, !.todoIssues = t,
                       !.totalIssues = w + d + t] :
        v \in {500, 799, 800}, b \in 0..MaxBlocked, w \in 0..MaxCount,
        d \in 0..MaxCount, t \in 0..MaxCount}
      \cup {ExampleMetrics}

InitRecommend ==
    /\ pc = "extracted"
    /\ issues = <<>>
    /\ metrics \in RecommendMetrics
    /\ healthAnalysis = analyzeSprintHealth(metrics)
    /\ accomplishments = <<>>
    /\ llmReply = NoReply
    /\ llmCalls = 0
    /\ recommendations = <<>>
    /\ allSummaries = <<>>
    /\ combinedSummary = <<>>
    /\ summary = NoSummary
    /\ written = <<>>
    /\ InitRun

NextRecommend == RequestRecommendations \/ ReceiveRecommendations

SpecRecommend == InitRecommend /\ [][NextRecommend]_vars

RuleRank(category) ==
    CASE category = "Velocity"        -> 1
      [] category = "Blockers"        -> 2
      [] category = "WIP Limit"       -> 3
      [] category = "Sprint Planning" -> 4
      [] OTHER                        -> 5

Has(recs, category, priority) ==
    \E i \in 1..Len(recs) : recs[i].category = category /\ recs[i].priority = priority

\* C5: the fallback list holds the Velocity/High entry iff velocityPercentage <
\* 80, Blockers/High iff blockedIssues > 0, WIP Limit/Medium iff inProgressIssues
\* > completedIssues, Sprint Planning/Medium iff todoIssues > 0, always in that
\* relative order; the example metrics give exactly the four, in that order.
C5_FallbackOrder ==
    (pc = "recommended" /\ llmReply.kind \in ErrorKinds) =>
        LET r == recommendations
            m == metrics
        IN  /\ \A i, j \in 1..Len(r) :
                  i < j => RuleRank(r[i].category) < RuleRank(r[j].category)
            /\ Has(r, "Velocity", "High") <=> m.velocityPercentage < 800
            /\ Has(r, "Blockers", "High") <=> m.blockedIssues > 0
            /\ Has(r, "WIP Limit", "Medium") <=> m.inProgressIssues > m.completedIssues
            /\ Has(r, "Sprint Planning", "Medium") <=> m.todoIssues > 0
            /\ m = ExampleMetrics =>
                  /\ Len(r) = 4
                  /\ <<r[1].category, r[1].priority>> = <<"Velocity", "High">>
                  /\ <<r[2].category, r[2].priority>> = <<"Blockers", "High">>
                  /\ <<r[3].category, r[3].priority>> = <<"WIP Limit", "Medium">>
                  /\ <<r[4].category, r[4].priority>> = <<"Sprint Planning", "Medium">>

C5_Witness ==
    /\ pc = "recommended"
    /\ llmReply.kind = "transport"
    /\ metrics = ExampleMetrics
    /\ Len(recommendations) = 4

\* The answers the claim names as failures, read off the answer itself.
HasProse(text) == \E i \in 1..Len(text) : text[i].kind = "prose"
OnlyValue(text) == SelectSeq(text, LAMBDA tok : tok.kind = "value")
NamedFailure(reply) ==
    \/ reply.kind \in ErrorKinds
    \/ /\ reply.kind = "text"
       /\ \/ HasProse(reply.text)
          \/ reply.text = <<>>
          \/ OnlyValue(reply.text)[1].value.type # "array"

\* C6: an invocation issues exactly one provider call, never throws, and
\* returns generateFallbackRecommendations(metrics) whenever the call fails or
\* its answer is not JSON or not a JSON array.
C6_OneCallThenFallback ==
    /\ pc # "failed"
    /\ pc = "awaiting" => llmCalls = 1
    /\ pc = "recommended" =>
          /\ llmCalls = 1
          /\ NamedFailure(llmReply) =>
                recommendations = generateFallbackRecommendations(metrics)

\* An answer that is a JSON object, not an array, inside a code fence.
C6_Witness ==
    /\ pc = "recommended"
    /\ llmCalls = 1
    /\ llmReply = TextReply(<<Fence, JsonWord, ValueToken(JsonObject("Velocity", "High", "Commit less")), Fence>>)
    /\ recommendations = generateFallbackRecommendations(metrics)

\* The calls that ended in the catch block of generateRecommendations.
FellBack(reply) == reply.kind \in ErrorKinds \/ ~parseRecommendations(reply.text).ok

NoRuleFired(m) ==
    /\ m.velocityPercentage >= 800
    /\ m.blockedIssues = 0
    /\ m.inProgressIssues <= m.completedIssues
    /\ m.todoIssues = 0

\* The five fields the rules read, every other field at its default.
RuleInputs(m) ==
    [NoMetrics EXCEPT !.velocityPercentage = m.velocityPercentage,
                      !.blockedIssues = m.blockedIssues,
                      !.inProgressIssues = m.inProgressIssues,
                      !.completedIssues = m.completedIssues,
                      !.todoIssues = m.todoIssues]

\* C19: whenever the fallback ran it returned a non-empty list, the list it
\* returns for the five rule inputs alone whatever the failed answer was, and
\* that list is the single General/Low entry iff none of the four rules fired.
C19_FallbackTotal ==
    (pc = "recommended" /\ FellBack(llmReply)) =>
        /\ Len(recommendations) >= 1
        /\ recommendations = generateFallbackRecommendations(RuleInputs(metrics))
        /\ recommendations = <<GeneralRec>> <=> NoRuleFired(metrics)
        /\ Has(recommendations, "General", "Low") <=> NoRuleFired(metrics)

\* Nothing fired: velocity 80.0, nothing blocked, in progress = completed = 1.
C19_Witness ==
    /\ pc = "recommended"
    /\ llmReply.kind = "status"
    /\ metrics.velocityPercentage = 800
    /\ metrics.inProgressIssues = 1
    /\ metrics.completedIssues = 1
    /\ metrics.totalIssues = 2
    /\ recommendations = <<GeneralRec>>

-----------------------------------------------------------------------------
(* SprintDataCollector.extractAccomplishments *)

TopAccomplishments == 10

\* const priorityOrder = { 'Highest': 0, 'High': 1, 'Medium': 2, 'Low': 3, 'Lowest': 4 }
PriorityOrder ==
    [p \in {"Highest", "High", "Medium", "Low", "Lowest"} |->
        CASE p = "Highest" -> 0
          [] p = "High"    -> 1
          [] p = "Medium"  -> 2
          [] p = "Low"     -> 3
          [] p = "Lowest"  -> 4]

\* priorityOrder[issue.fields.priority?.name] || 5: a name the table lacks
\* looks up undefined, and undefined and 0 are both falsy.
PriorityRank(issue) ==
    LET looked == IF issue.priority \in DOMAIN PriorityOrder
                  THEN PriorityOrder[issue.priority] ELSE 0
    IN  IF looked # 0 THEN looked ELSE 5

\* A comparator that breaks priority ties by story points, larger first.
CompareWithPoints(a, b) ==
    IF PriorityRank(a) # PriorityRank(b) THEN PriorityRank(a) - PriorityRank(b)
    ELSE b.customfield_10016 - a.customfield_10016

\* The comparator of the sort: aPriority - bPriority
Compare(a, b) == PriorityRank(a) - PriorityRank(b)

\* Array.prototype.sort is stable: x goes before the first element that the
\* comparator orders strictly after it.
InsertStable(sorted, x) ==
    LET later == {i \in 1..Len(sorted) : Compare(sorted[i], x) > 0}
        at == IF later = {} THEN Len(sorted) + 1
              ELSE CHOOSE i \in later : \A j \in later : i <= j
    IN  SubSeq(sorted, 1, at - 1) \o <<x>> \o SubSeq(sorted, at, Len(sorted))

RECURSIVE SortStable(_)
SortStable(s) ==
    IF s = <<>> THEN <<>>
    ELSE InsertStable(SortStable(SubSeq(s, 1, Len(s) - 1)), s[Len(s)])

\* The projection of a completed issue (summary, type and assignee are copied
\* through and not modelled).
Accomplishment(issue) ==
    [key |-> issue.key,
     priority |-> IF issue.priority = NoPriority THEN "None" ELSE issue.priority,
     storyPoints |-> issue.customfield_10016]

extractAccomplishments(m) ==
    LET top == Take(SortStable(m.statusGroups.completed), TopAccomplishments)
    IN  [i \in 1..Len(top) |-> Accomplishment(top[i])]

\* main: const accomplishments = dataCollector.extractAccomplishments(metrics, ...).
\* Array.prototype.sort sorts metrics.statusGroups.completed in place.
ExtractAccomplishments ==
    /\ pc = "health"
    /\ accomplishments' = extractAccomplishments(metrics)
    /\ metrics' = [metrics EXCEPT !.statusGroups.completed = SortStable(@)]
    /\ pc' = "extracted"
    /\ UNCHANGED <<issues, healthAnalysis, llmReply, llmCalls, recommendations,
                   allSummaries, combinedSummary, summary, written>>
    /\ UNCHANGED <<allMetrics, outstanding, runVars>>

-----------------------------------------------------------------------------
(* Specification of the pipeline up to extractAccomplishments *)

MaxRanked == 3          \* longest issue list of this specification

RankedPriorities == {"Highest", "High", "Low", "Critical", NoPriority}

RankedIssues ==
    {Issue(0, "Done", "Closed", {}, p, 0, sp) : p \in RankedPriorities, sp \in {0, 1}}
        \cup {Issue(0, "To Do", "Open", {}, p, 0, 0) : p \in RankedPriorities}

InitAccomplish ==
    /\ pc = "start"
    /\ issues \in {Keyed(s) : s \in SeqsUpTo(RankedIssues, MaxRanked)}
    /\ metrics = NoMetrics
    /\ allSummaries = <<>>
    /\ summary = NoSummary
    /\ InitOutputs

NextAccomplish == CalculateMetrics \/ AnalyzeSprintHealth \/ ExtractAccomplishments

SpecAccomplish == InitAccomplish /\ [][NextAccomplish]_vars

\* The rank the specification gives a priority name.
ClaimedRank(priority) ==
    CASE priority = "Highest" -> 0
      [] priority = "High"    -> 1
      [] priority = "Medium"  -> 2
      [] priority = "Low"     -> 3
      [] priority = "Lowest"  -> 4
      [] OTHER                -> 5

\* C8: the accomplishments are the completed issues in ascending order of the
\* rank Highest=0 < High=1 < Medium=2 < Low=3 < Lowest=4 < unknown=5, cut to the
\* first 10: every Highest issue precedes every issue of another priority, and
\* no returned issue outranks a completed issue that was left out.
C8_PriorityOrder ==
    pc = "extracted" =>
        LET a == accomplishments
            done == SelectSeq(issues, LAMBDA i : i.statusCategory = "Done")
            keys == {a[i].key : i \in 1..Len(a)}
        IN  /\ Len(a) = (IF Len(done) < 10 THEN Len(done) ELSE 10)
            /\ \A i, j \in 1..Len(a) :
                  i < j => ClaimedRank(a[i].priority) <= ClaimedRank(a[j].priority)
            /\ \A i, j \in 1..Len(a) :
                  (a[j].priority = "Highest" /\ a[i].priority # "Highest") => j < i
            /\ \A i \in 1..Len(a), k \in 1..Len(done) :
                  done[k].key \notin keys =>
                      ClaimedRank(a[i].priority) <= ClaimedRank(done[k].priority)

-----------------------------------------------------------------------------
(* OutputGenerator.generateFilename, saveJSON, saveMarkdown *)

AsciiLetters ==
    {"a", "b", "c", "d", "e", "f", "g", "h", "i", "j", "k", "l", "m", "n", "o", "p", "q",
     "r", "s", "t", "u", "v", "w", "x", "y", "z", "A", "B", "C", "D", "E", "F", "G", "H",
     "I", "J", "K", "L", "M", "N", "O", "P", "Q", "R", "S", "T", "U", "V", "W", "X", "Y",
     "Z"}
AsciiDigits == {"0", "1", "2", "3", "4", "5", "6", "7", "8", "9"}

\* The complement of the character class [^a-zA-Z0-9]
IsAlnum(c) == c \in AsciiLetters \cup AsciiDigits

\* A replace without the g flag: only the first match is replaced.
SanitizeFirstOnly(label) ==
    LET bad == {i \in 1..Len(label) : ~IsAlnum(label[i])}
    IN  [i \in 1..Len(label) |->
            IF i \in bad /\ (\A j \in bad : i <= j) THEN "_" ELSE label[i]]

\* teamLabel.replace(/[^a-zA-Z0-9]/g, '_'), code unit by code unit
Sanitize(label) ==
    [i \in 1..Len(label) |-> IF IsAlnum(label[i]) THEN label[i] ELSE "_"]

SprintSummaryPrefix ==
    <<"s", "p", "r", "i", "n", "t", "-", "s", "u", "m", "m", "a", "r", "y", "-">>
JsonExtension == <<"j", "s", "o", "n">>
MarkdownExtension == <<"m", "d">>

\* `sprint-summary-${projectKey}-${sanitizedTeam}.${extension}`
generateFilename(sm, extension) ==
    SprintSummaryPrefix \o sm.projectKey \o <<"-">> \o Sanitize(sm.teamLabel)
        \o <<".">> \o extension

\* main: await outputGenerator.saveJSON(summary, config.outputDir)
SaveJSON ==
    /\ pc = "summary"
    /\ written' = Append(written, generateFilename(summary, JsonExtension))
    /\ pc' = "json"
    /\ UNCHANGED <<issues, metrics, healthAnalysis, accomplishments, llmReply, llmCalls,
                   recommendations, allSummaries, combinedSummary, summary>>
    /\ UNCHANGED <<allMetrics, outstanding, runVars>>

\* saveMarkdown writing under the extension of saveJSON.
SaveMarkdownAsJSON ==
    /\ pc = "json"
    /\ written' = Append(written, generateFilename(summary, JsonExtension))
    /\ pc' = "markdown"
    /\ UNCHANGED <<issues, metrics, healthAnalysis, accomplishments, llmReply, llmCalls,
                   recommendations, allSummaries, combinedSummary, summary>>
    /\ UNCHANGED <<allMetrics, outstanding, runVars>>

\* main: await outputGenerator.saveMarkdown(summary, config.outputDir)
SaveMarkdown ==
    /\ pc = "json"
    /\ written' = Append(written, generateFilename(summary, MarkdownExtension))
    /\ pc' = "markdown"
    /\ UNCHANGED <<issues, metrics, healthAnalysis, accomplishments, llmReply, llmCalls,
                   recommendations, allSummaries, combinedSummary, summary>>
    /\ UNCHANGED <<allMetrics, outstanding, runVars>>

-----------------------------------------------------------------------------
(* Specification of the file names over bounded team labels *)

MaxLabelLen == 3        \* longest enumerated team label

LabelChars == {"a", "Z", "7", " ", "!", "_", "-", "\\"}
TeamAlpha == <<"T", "e", "a", "m", " ", "A", "l", "p", "h", "a", "!">>
AllTeams == <<"A", "l", "l", " ", "T", "e", "a", "m", "s">>
Proj == <<"P", "R", "O", "J">>

\* generateSummary stores teamLabel || 'All Teams': never the empty string.
TeamLabelSamples ==
    (SeqsUpTo(LabelChars, MaxLabelLen) \ {<<>>}) \cup {TeamAlpha, AllTeams}

InitFilename ==
    /\ pc = "summary"
    /\ issues = <<>>
    /\ metrics = NoMetrics
    /\ allSummaries = <<>>
    /\ summary \in {[projectKey |-> k, teamLabel |-> l] :
                       k \in {Proj, <<"W", "E", "B", "2">>}, l \in TeamLabelSamples}
    /\ InitOutputs

NextFilename == SaveJSON \/ SaveMarkdown

SpecFilename == InitFilename /\ [][NextFilename]_vars

\* name is sprint-summary-{key}-{s}.{ext} where s has the length of label and
\* differs from it exactly in the non-alphanumeric places, which hold "_".
IsSummaryName(name, key, label, ext) ==
    LET k == Len(key)
        n == Len(label)
    IN  /\ Len(name) = 15 + k + 1 + n + 1 + Len(ext)
        /\ SubSeq(name, 1, 15) = SprintSummaryPrefix
        /\ SubSeq(name, 16, 15 + k) = key
        /\ name[16 + k] = "-"
        /\ \A i \in 1..n :
              name[16 + k + i] = (IF IsAlnum(label[i]) THEN label[i] ELSE "_")
        /\ name[17 + k + n] = "."
        /\ SubSeq(name, 18 + k + n, Len(name)) = ext

\* C10: generateFilename returns sprint-summary-{projectKey}-{sanitized}.{ext},
\* the sanitized label as long as the team label with every character that is
\* not an ASCII letter or digit replaced by one underscore; "Team Alpha!" and
\* "PROJ" give sprint-summary-PROJ-Team_Alpha_.json.
C10_Filename ==
    /\ pc \in {"json", "markdown"} =>
          /\ IsSummaryName(written[1], summary.projectKey, summary.teamLabel, JsonExtension)
          /\ (summary.projectKey = Proj /\ summary.teamLabel = TeamAlpha) =>
                written[1] = <<"s", "p", "r", "i", "n", "t", "-", "s", "u", "m", "m", "a",
                               "r", "y", "-", "P", "R", "O", "J", "-", "T", "e", "a", "m",
                               "_", "A", "l", "p", "h", "a", "_", ".", "j", "s", "o", "n">>
    /\ pc = "markdown" =>
          IsSummaryName(written[2], summary.projectKey, summary.teamLabel, MarkdownExtension)

C10_Witness ==
    /\ pc = "json"
    /\ summary.projectKey = Proj
    /\ summary.teamLabel = TeamAlpha
    /\ Len(written) = 1
    /\ written[1][25] = "_"
    /\ written[1][31] = "_"

-----------------------------------------------------------------------------
(* OutputGenerator.generateSummary (the fields the aggregator reads) and      *)
(* OutputGenerator.generateCombinedSummary                                    *)

\* `${x}%` of a percentage: its tenths, the number of fraction digits printed
\* and the suffix.  toFixed(1) always prints one digit ("50.0%"); a number
\* prints none when it is whole ("60%", "0%").
FixedPercent(tenths) == [tenths |-> tenths, fractionDigits |-> 1, suffix |-> "%"]
NumberPercent(tenths) ==
    [tenths |-> tenths, fractionDigits |-> IF tenths % 10 = 0 THEN 0 ELSE 1, suffix |-> "%"]

\* A per-entity summary (generateSummary): the sprintHealthMetrics block, the
\* identifiers, the rating, the two extracted lists, the team size, and
\* whatTheTeamWorkedOn.completedWork (accomplishments.length).
Summary(key, label, m, health, blockers, accs, members) ==
    [projectKey |-> key, teamLabel |-> label,
     sprintHealthMetrics |->
         [totalIssues |-> m.totalIssues, completedIssues |-> m.completedIssues,
          inProgressIssues |-> m.inProgressIssues, todoIssues |-> m.todoIssues,
          blockedIssues |-> m.blockedIssues,
          completionRate |-> NumberPercent(m.completionRate),
          velocity |-> m.velocity,
          totalStoryPoints |-> m.totalStoryPoints,
          completedStoryPoints |-> m.completedStoryPoints,
          velocityPercentage |-> NumberPercent(m.velocityPercentage)],
     overallHealth |-> health,
     currentBlockers |-> blockers,
     keyAccomplishments |-> accs,
     completedWork |-> Len(accs),
     totalMembers |-> members]

TopCombined == 20

Field(summaries, f) == [i \in 1..Len(summaries) |-> summaries[i].sprintHealthMetrics[f]]

\* A forEach that assigns blockedIssues where it should add to it.
CombinedMetricsBlockedAssigned(summaries) ==
    [totalIssues          |-> SumSeq(Field(summaries, "totalIssues")),
     completedIssues      |-> SumSeq(Field(summaries, "completedIssues")),
     inProgressIssues     |-> SumSeq(Field(summaries, "inProgressIssues")),
     todoIssues           |-> SumSeq(Field(summaries, "todoIssues")),
     blockedIssues        |-> summaries[Len(summaries)].sprintHealthMetrics.blockedIssues,
     totalStoryPoints     |-> SumSeq(Field(summaries, "totalStoryPoints")),
     completedStoryPoints |-> SumSeq(Field(summaries, "completedStoryPoints")),
     totalTeamMembers     |-> SumSeq([i \in 1..Len(summaries) |-> summaries[i].totalMembers])]

\* The forEach that adds every summary's counters to combinedMetrics.
CombinedMetrics(summaries) ==
    [totalIssues          |-> SumSeq(Field(summaries, "totalIssues")),
     completedIssues      |-> SumSeq(Field(summaries, "completedIssues")),
     inProgressIssues     |-> SumSeq(Field(summaries, "inProgressIssues")),
     todoIssues           |-> SumSeq(Field(summaries, "todoIssues")),
     blockedIssues        |-> SumSeq(Field(summaries, "blockedIssues")),
     totalStoryPoints     |-> SumSeq(Field(summaries, "totalStoryPoints")),
     completedStoryPoints |-> SumSeq(Field(summaries, "completedStoryPoints")),
     totalTeamMembers     |-> SumSeq([i \in 1..Len(summaries) |-> summaries[i].totalMembers])]

\* The combined rate as the mean of the per-entity rates.
CombinedCompletionRateAveraged(summaries) ==
    FixedPercent((2 * SumSeq([i \in 1..Len(summaries) |->
                                 summaries[i].sprintHealthMetrics.completionRate.tenths])
                    + Len(summaries)) \div (2 * Len(summaries)))

\* totalIssues > 0 ? ((completedIssues / totalIssues) * 100).toFixed(1) : 0, then `${..}%`
CombinedCompletionRate(summaries) ==
    LET cm == CombinedMetrics(summaries)
    IN  IF cm.totalIssues > 0
        THEN FixedPercent(ToFixed1(cm.completedIssues, cm.totalIssues))
        ELSE NumberPercent(0)

\* totalStoryPoints > 0 ? ((completedStoryPoints / totalStoryPoints) * 100).toFixed(1) : 0
CombinedVelocityPercentage(summaries) ==
    LET cm == CombinedMetrics(summaries)
    IN  IF cm.totalStoryPoints > 0
        THEN FixedPercent(ToFixed1(cm.completedStoryPoints, cm.totalStoryPoints))
        ELSE NumberPercent(0)

\* {...entry, team: summary.teamInfo.label, project: summary.projectInfo.key}
Tagged(entries, sm) ==
    [i \in 1..Len(entries) |-> [entry |-> entries[i], team |-> sm.teamLabel,
                                project |-> sm.projectKey]]

RECURSIVE AllTagged(_, _)
AllTagged(summaries, f) ==
    IF summaries = <<>> THEN <<>>
    ELSE AllTagged(SubSeq(summaries, 1, Len(summaries) - 1), f)
            \o Tagged(summaries[Len(summaries)][f], summaries[Len(summaries)])

\* A sort that puts an entry before the entries of equal story points.
InsertByPointsBeforeTies(sorted, x) ==
    LET later == {i \in 1..Len(sorted) : x.entry.storyPoints - sorted[i].entry.storyPoints >= 0}
        at == IF later = {} THEN Len(sorted) + 1
              ELSE CHOOSE i \in later : \A j \in later : i <= j
    IN  SubSeq(sorted, 1, at - 1) \o <<x>> \o SubSeq(sorted, at, Len(sorted))

\* The stable sort by (b.storyPoints || 0) - (a.storyPoints || 0)
InsertByPoints(sorted, x) ==
    LET later == {i \in 1..Len(sorted) : x.entry.storyPoints - sorted[i].entry.storyPoints > 0}
        at == IF later = {} THEN Len(sorted) + 1
              ELSE CHOOSE i \in later : \A j \in later : i <= j
    IN  SubSeq(sorted, 1, at - 1) \o <<x>> \o SubSeq(sorted, at, Len(sorted))

RECURSIVE SortByPoints(_)
SortByPoints(s) ==
    IF s = <<>> THEN <<>>
    ELSE InsertByPoints(SortByPoints(SubSeq(s, 1, Len(s) - 1)), s[Len(s)])

\* The combined summary, or null (no entry) for an empty list.
generateCombinedSummary(summaries) ==
    IF Len(summaries) = 0 THEN <<>>
    ELSE LET cm == CombinedMetrics(summaries)
         IN  <<[sprintHealthMetrics |->
                    [totalIssues |-> cm.totalIssues,
                     completedIssues |-> cm.completedIssues,
                     inProgressIssues |-> cm.inProgressIssues,
                     todoIssues |-> cm.todoIssues,
                     blockedIssues |-> cm.blockedIssues,
                     totalStoryPoints |-> cm.totalStoryPoints,
                     completedStoryPoints |-> cm.completedStoryPoints,
                     totalTeamMembers |-> cm.totalTeamMembers,
                     completionRate |-> CombinedCompletionRate(summaries),
                     velocityPercentage |-> CombinedVelocityPercentage(summaries),
                     velocity |-> cm.completedStoryPoints],
                 currentBlockers |->
                     Take(AllTagged(summaries, "currentBlockers"), TopCombined),
                 keyAccomplishments |->
                     Take(SortByPoints(AllTagged(summaries, "keyAccomplishments")),
                          TopCombined),
                 teamSummaries |->
                     [i \in 1..Len(summaries) |->
                         [team |-> summaries[i].teamLabel,
                          project |-> summaries[i].projectKey,
                          health |-> summaries[i].overallHealth,
                          completionRate |-> summaries[i].sprintHealthMetrics.completionRate,
                          velocity |-> summaries[i].sprintHealthMetrics.velocity]]]>>

\* const combinedSummary = outputGenerator.generateCombinedSummary(allSummaries)
GenerateCombinedSummary ==
    /\ pc = "summaries"
    /\ combinedSummary' = generateCombinedSummary(allSummaries)
    /\ pc' = "combined"
    /\ UNCHANGED <<issues, metrics, healthAnalysis, accomplishments, llmReply, llmCalls,
                   recommendations, allSummaries, summary, written>>
    /\ UNCHANGED <<allMetrics, outstanding, runVars>>

-----------------------------------------------------------------------------
(* Specification of generateCombinedSummary over bounded lists of summaries *)

MaxSummaries == 2       \* longest list of per-entity summaries
MaxTeamIssues == 2      \* most issues of one entity

TeamNames == <<TeamAlpha, <<"B", "e", "t", "a">>, <<"Q", "A">>, <<"O", "p", "s">>, AllTeams>>

\* The issues of an entity: d done, then w in progress, then t not started.  The
\* first p done issues carry q story points in customfield_10016, the other done
\* issues none, every issue that is not done one.
TeamIssues(d, w, t, p, q) ==
    [i \in 1..(d + w + t) |->
        Issue(i, IF i <= d THEN "Done" ELSE IF i <= d + w THEN "In Progress" ELSE "To Do",
              "Open", {}, "Medium", 0, IF i <= p THEN q ELSE IF i > d THEN 1 ELSE 0)]

TeamSummary(iss) ==
    LET m == calculateMetrics(iss)
    IN  Summary(Proj, AllTeams, m, analyzeSprintHealth(m).overallHealth, <<>>,
                extractAccomplishments(m), 1)

\* collectAllSprintData keeps only the entities with at least one issue.
TeamSummaries ==
    {TeamSummary(TeamIssues(d, w, t, p, q)) :
        d \in 0..MaxTeamIssues, w \in 0..MaxTeamIssues, t \in 0..1,
        p \in 0..1, q \in {2, 3}}

Named(summaries) ==
    [i \in 1..Len(summaries) |-> [summaries[i] EXCEPT !.teamLabel = TeamNames[i]]]

InitCombined ==
    /\ pc = "summaries"
    /\ issues = <<>>
    /\ metrics = NoMetrics
    /\ allSummaries \in
          {Named(s) : s \in SeqsUpTo({sm \in TeamSummaries :
                                         /\ sm.sprintHealthMetrics.totalIssues >= 1
                                         /\ sm.sprintHealthMetrics.totalIssues <= MaxTeamIssues},
                                     MaxSummaries)}
    /\ summary = NoSummary
    /\ InitOutputs

NextCombined == GenerateCombinedSummary

SpecCombined == InitCombined /\ [][NextCombined]_vars

\* r is num / den x 100 to the nearest tenth of a percent.
NearestTenth(r, num, den) ==
    /\ 2 * (r * den - 1000 * num) <= den
    /\ 2 * (1000 * num - r * den) <= den

\* C7: the combined completion rate is (sum of completedIssues) / (sum of
\* totalIssues) x 100 and the combined velocity percentage (sum of
\* completedStoryPoints) / (sum of totalStoryPoints) x 100, each printed with one
\* fraction digit; entities with 1 of 1 and 0 of 1 issues give "50.0" (followed
\* by the percent sign the code appends).
C7_RatesFromSums ==
    (pc = "combined" /\ Len(allSummaries) > 0) =>
        LET out == combinedSummary[1].sprintHealthMetrics
            T == SumSeq(Field(allSummaries, "totalIssues"))
            D == SumSeq(Field(allSummaries, "completedIssues"))
            P == SumSeq(Field(allSummaries, "totalStoryPoints"))
            Q == SumSeq(Field(allSummaries, "completedStoryPoints"))
        IN  /\ T > 0 => /\ NearestTenth(out.completionRate.tenths, D, T)
                        /\ out.completionRate.fractionDigits = 1
            /\ P > 0 => /\ NearestTenth(out.velocityPercentage.tenths, Q, P)
                        /\ out.velocityPercentage.fractionDigits = 1
            /\ (Len(allSummaries) = 2 /\ T = 2 /\ D = 1
                  /\ allSummaries[1].sprintHealthMetrics.totalIssues = 1)
                 => out.completionRate = FixedPercent(500)

\* 1 of 1 and 0 of 2: the sums give 33.3, the two rates average to 50.
C7_Witness ==
    /\ pc = "combined"
    /\ Len(allSummaries) = 2
    /\ allSummaries[1].sprintHealthMetrics.totalIssues = 1
    /\ allSummaries[1].sprintHealthMetrics.completedIssues = 1
    /\ allSummaries[2].sprintHealthMetrics.totalIssues = 2
    /\ allSummaries[2].sprintHealthMetrics.completedIssues = 0
    /\ combinedSummary[1].sprintHealthMetrics.completionRate.tenths = 333
    /\ combinedSummary[1].sprintHealthMetrics.totalStoryPoints > 0

-----------------------------------------------------------------------------
(* The processing of one entity in main, from its issues to its two files *)

\* SprintDataCollector.extractBlockers: the projection of every blocked issue.
extractBlockers(m) ==
    [i \in 1..Len(m.statusGroups.blocked) |->
        [key |-> m.statusGroups.blocked[i].key,
         priority |-> IF m.statusGroups.blocked[i].priority = NoPriority
                      THEN "None" ELSE m.statusGroups.blocked[i].priority,
         status |-> m.statusGroups.blocked[i].statusName]]

\* main: const summary = outputGenerator.generateSummary(...); allSummaries.push(summary)
GenerateSummary ==
    /\ pc = "recommended"
    /\ allSummaries' =
          Append(allSummaries,
                 Summary(summary.projectKey, summary.teamLabel, metrics,
                         healthAnalysis.overallHealth, extractBlockers(metrics),
                         accomplishments, 1))
    /\ allMetrics' = Append(allMetrics, metrics)
    /\ pc' = "summary"
    /\ UNCHANGED <<issues, metrics, healthAnalysis, accomplishments, llmReply, llmCalls,
                   recommendations, combinedSummary, summary, written>>
    /\ UNCHANGED <<outstanding, runVars>>

MaxEntityIssues == 2    \* longest issue list of this specification

EntityIssues ==
    {Issue(0, "Done", "Closed", {}, "Highest", 0, 1),
     Issue(0, "Done", "Closed", {"blocked"}, "Low", 2, 0),
     Issue(0, "In Progress", "Blocked", {}, NoPriority, 0, 0),
     Issue(0, "To Do", "Open", {"Blocked"}, "Critical", 0, 3)}

Init ==
    /\ pc = "start"
    /\ issues \in {Keyed(s) : s \in SeqsUpTo(EntityIssues, MaxEntityIssues) \ {<<>>}}
    /\ metrics = NoMetrics
    /\ allSummaries = <<>>
    /\ summary \in {[projectKey |-> Proj, teamLabel |-> l] : l \in {TeamAlpha, AllTeams}}
    /\ InitOutputs

Next ==
    \/ CalculateMetrics
    \/ AnalyzeSprintHealth
    \/ ExtractAccomplishments
    \/ RequestRecommendations
    \/ ReceiveRecommendations
    \/ GenerateSummary
    \/ SaveJSON
    \/ SaveMarkdown

Spec == Init /\ [][Next]_vars


-----------------------------------------------------------------------------
(* Strings of the configuration, character by character *)

UpperCaseLetters ==
    <<"A", "B", "C", "D", "E", "F", "G", "H", "I", "J", "K", "L", "M",
      "N", "O", "P", "Q", "R", "S", "T", "U", "V", "W", "X", "Y", "Z">>
LowerCaseLetters ==
    <<"a", "b", "c", "d", "e", "f", "g", "h", "i", "j", "k", "l", "m",
      "n", "o", "p", "q", "r", "s", "t", "u", "v", "w", "x", "y", "z">>

LowerChar(c) ==
    IF \E i \in 1..26 : UpperCaseLetters[i] = c
    THEN LowerCaseLetters[CHOOSE i \in 1..26 : UpperCaseLetters[i] = c]
    ELSE c
UpperChar(c) ==
    IF \E i \in 1..26 : LowerCaseLetters[i] = c
    THEN UpperCaseLetters[CHOOSE i \in 1..26 : LowerCaseLetters[i] = c]
    ELSE c

\* String.prototype.toLowerCase on a sequence of characters
LowerCased(s) == [i \in 1..Len(s) |-> LowerChar(s[i])]

OpenAI == <<"o", "p", "e", "n", "a", "i">>
Anthropic == <<"a", "n", "t", "h", "r", "o", "p", "i", "c">>
OpenRouter == <<"o", "p", "e", "n", "r", "o", "u", "t", "e", "r">>

-----------------------------------------------------------------------------
(* createLLMProvider *)

Message(text, detail) == [text |-> text, detail |-> detail]
Provider(backend, model) == [backend |-> backend, model |-> model]
Built(provider) == [ok |-> TRUE, provider |-> provider, message |-> NoMessage]
Refused(message) == [ok |-> FALSE, provider |-> NoProvider, message |-> message]

\* model || '<the backend's default model>'
ModelOr(model, default) == IF model = "" THEN default ELSE model

\* The switch on the provider name as it was given, not lower-cased.
createLLMProviderCaseSensitive(providerName, model) ==
    LET provider == IF providerName = <<>> THEN OpenRouter ELSE providerName
    IN  IF provider = OpenAI THEN Built(Provider("OpenAIProvider", ModelOr(model, "gpt-4o")))
        ELSE IF provider = Anthropic
        THEN Built(Provider("AnthropicProvider", ModelOr(model, "claude-3-5-sonnet-20241022")))
        ELSE IF provider = OpenRouter
        THEN Built(Provider("OpenRouterProvider", ModelOr(model, "anthropic/claude-3.5-sonnet")))
        ELSE Refused(Message("Unsupported LLM provider", provider))

\* (providerName || 'openrouter').toLowerCase(), then the switch: the provider
\* built, or the Error thrown by the default branch.
createLLMProvider(providerName, model) ==
    LET provider == LowerCased(IF providerName = <<>> THEN OpenRouter ELSE providerName)
    IN  IF provider = OpenAI THEN Built(Provider("OpenAIProvider", ModelOr(model, "gpt-4o")))
        ELSE IF provider = Anthropic
        THEN Built(Provider("AnthropicProvider", ModelOr(model, "claude-3-5-sonnet-20241022")))
        ELSE IF provider = OpenRouter
        THEN Built(Provider("OpenRouterProvider", ModelOr(model, "anthropic/claude-3.5-sonnet")))
        ELSE Refused(Message("Unsupported LLM provider", provider))

\* Config.getLLMConfig, as main uses it: the provider name and the model of
\* the configuration.
getLLMConfig(cfg) == [provider |-> cfg.llmProvider, model |-> cfg.llmModel]

\* main's catch block: console.error('Error:', error.message); process.exit(1)
Fatal(message) ==
    /\ pc' = "exit"
    /\ exitCode' = 1
    /\ errorMessage' = message

\* main: new JiraClient, new SprintDataCollector, new OutputGenerator,
\* config.getLLMConfig(), new LLMRecommendationsGenerator(provider, apiKey, model)
Construct ==
    /\ pc = "configured"
    /\ LET llmConfig == getLLMConfig(config)
           made == createLLMProvider(llmConfig.provider, llmConfig.model)
       IN  IF made.ok
           THEN /\ llmProvider' = made.provider
                /\ pc' = "collecting"
                /\ UNCHANGED <<exitCode, errorMessage>>
           ELSE /\ Fatal(made.message)
                /\ UNCHANGED llmProvider
    /\ UNCHANGED <<issues, metrics, healthAnalysis, accomplishments, llmReply, llmCalls,
                   recommendations, allSummaries, combinedSummary, summary, written,
                   allMetrics, outstanding, env, config, teamsToProcess, collect,
                   allSprintData, cursor, jiraCalls, log, slides>>

-----------------------------------------------------------------------------
(* Specification of the provider selection over sampled provider names *)

\* Every spelling of a name in upper and lower case.
RECURSIVE CaseVariants(_)
CaseVariants(name) ==
    IF name = <<>> THEN {<<>>}
    ELSE {<<c>> \o rest : c \in {Head(name), UpperChar(Head(name))},
                          rest \in CaseVariants(Tail(name))}

OtherProviderNames ==
    {<<"g", "e", "m", "i", "n", "i">>, <<"o", "p", "e", "n", " ", "a", "i">>,
     <<"o", "p", "e", "n", "a", "i", " ">>, <<" ", "o", "p", "e", "n", "a", "i">>,
     <<"o", "p", "e", "n">>, <<"a", "z", "u", "r", "e">>, <<"0">>}

ProviderNames ==
    CaseVariants(OpenAI) \cup CaseVariants(Anthropic)
        \cup {OpenRouter, <<"O", "p", "e", "n", "R", "o", "u", "t", "e", "r">>,
              <<"O", "P", "E", "N", "R", "O", "U", "T", "E", "R">>, <<>>}
        \cup OtherProviderNames

\* A configuration loadConfig accepts.
SampleConfig ==
    [host |-> "acme.atlassian.net", email |-> "dev@acme.io", apiToken |-> "token",
     projectKeys |-> <<"PROJ">>, teamLabels |-> <<>>, generateCombinedSummary |-> FALSE,
     llmProvider |-> <<>>, llmModel |-> ""]

InitProvider ==
    /\ pc = "configured"
    /\ issues = <<>>
    /\ metrics = NoMetrics
    /\ allSummaries = <<>>
    /\ summary = NoSummary
    /\ healthAnalysis = NoHealth
    /\ accomplishments = <<>>
    /\ llmReply = NoReply
    /\ llmCalls = 0
    /\ recommendations = <<>>
    /\ combinedSummary = <<>>
    /\ written = <<>>
    /\ env = NoEnv
    /\ config \in {[SampleConfig EXCEPT !.llmProvider = name, !.llmModel = model] :
                      name \in ProviderNames, model \in {"", "custom-model"}}
    /\ llmProvider = NoProvider
    /\ teamsToProcess = <<>>
    /\ collect = NoCollect
    /\ allSprintData = <<>>
    /\ allMetrics = <<>>
    /\ cursor = 0
    /\ jiraCalls = 0
    /\ outstanding = 0
    /\ log = <<>>
    /\ slides = <<>>
    /\ exitCode = NoExit
    /\ errorMessage = NoMessage

NextProvider == Construct

SpecProvider == InitProvider /\ [][NextProvider]_vars

\* C20: the backend is chosen by the provider name compared without regard to
\* case (openai, anthropic, openrouter), openrouter when no name is given, and
\* any other name makes createLLMProvider throw 'Unsupported LLM provider'
\* and no provider is built.
C20_ProviderSelection ==
    pc # "configured" =>
        LET name == config.llmProvider
            Same(a, b) ==
                /\ Len(a) = Len(b)
                /\ \A i \in 1..Len(a) : a[i] = b[i] \/ a[i] = UpperChar(b[i])
        IN  /\ Same(name, OpenAI) =>
                  pc = "collecting" /\ llmProvider.backend = "OpenAIProvider"
            /\ Same(name, Anthropic) =>
                  pc = "collecting" /\ llmProvider.backend = "AnthropicProvider"
            /\ (Same(name, OpenRouter) \/ name = <<>>) =>
                  pc = "collecting" /\ llmProvider.backend = "OpenRouterProvider"
            /\ ~(Same(name, OpenAI) \/ Same(name, Anthropic) \/ Same(name, OpenRouter)
                    \/ name = <<>>) =>
                  /\ pc = "exit"
                  /\ llmProvider = NoProvider
                  /\ errorMessage.text = "Unsupported LLM provider"

\* LLM_PROVIDER=OpenAI
C20_Witness ==
    /\ pc = "collecting"
    /\ config.llmProvider = <<"O", "p", "e", "n", "A", "I">>
    /\ llmProvider = Provider("OpenAIProvider", "gpt-4o")

-----------------------------------------------------------------------------
(* Config and loadConfig *)

\* A comma-separated setting is a sequence of tokens: "," , " " or a name.
RECURSIVE SplitComma(_)
\* String.prototype.split(','): the pieces between the commas, at least one.
SplitComma(s) ==
    IF \A i \in 1..Len(s) : s[i] # "," THEN <<s>>
    ELSE LET k == CHOOSE i \in 1..Len(s) : s[i] = "," /\ \A j \in 1..(i - 1) : s[j] # ","
         IN  <<SubSeq(s, 1, k - 1)>> \o SplitComma(SubSeq(s, k + 1, Len(s)))

RECURSIVE TrimBlanks(_)
\* String.prototype.trim on a piece
TrimBlanks(s) ==
    IF s # <<>> /\ Head(s) = " " THEN TrimBlanks(Tail(s))
    ELSE IF s # <<>> /\ s[Len(s)] = " " THEN TrimBlanks(SubSeq(s, 1, Len(s) - 1))
    ELSE s

\* str.split(',').map(k => k.trim()).filter(k => k): the names of the pieces
\* that are not blank (a sampled piece holds one name at most).
ParseList(s) ==
    LET pieces == SplitComma(s)
        trimmed == [i \in 1..Len(pieces) |-> TrimBlanks(pieces[i])]
        kept == SelectSeq(trimmed, LAMBDA piece : piece # <<>>)
    IN  [i \in 1..Len(kept) |-> kept[i][1]]

DefaultModel == "anthropic/claude-3.5-sonnet"

\* new Config(): the fields read from process.env.  llmProvider is the
\* setting LLM_PROVIDER that getLLMConfig hands to main.
Config(e) ==
    [host |-> e.JIRA_HOST,
     email |-> e.JIRA_EMAIL,
     apiToken |-> e.JIRA_API_TOKEN,
     projectKeys |-> ParseList(IF e.JIRA_PROJECT_KEYS # <<>> THEN e.JIRA_PROJECT_KEYS
                               ELSE e.JIRA_PROJECT_KEY),
     teamLabels |-> ParseList(e.TEAM_LABELS),
     generateCombinedSummary |-> e.GENERATE_COMBINED_SUMMARY = "true",
     llmProvider |-> e.LLM_PROVIDER,
     llmModel |-> IF e.LLM_MODEL = "" THEN DefaultModel ELSE e.LLM_MODEL]

\* A validation that does not look at the project keys.
MissingSettingsKeysUnchecked(cfg) ==
    (IF cfg.host = "" THEN <<"JIRA_HOST">> ELSE <<>>)
        \o (IF cfg.email = "" THEN <<"JIRA_EMAIL">> ELSE <<>>)
        \o (IF cfg.apiToken = "" THEN <<"JIRA_API_TOKEN">> ELSE <<>>)

\* Config.validate: the list `missing`
MissingSettings(cfg) ==
    (IF cfg.host = "" THEN <<"JIRA_HOST">> ELSE <<>>)
        \o (IF cfg.email = "" THEN <<"JIRA_EMAIL">> ELSE <<>>)
        \o (IF cfg.apiToken = "" THEN <<"JIRA_API_TOKEN">> ELSE <<>>)
        \o (IF cfg.projectKeys = <<>> THEN <<"JIRA_PROJECT_KEYS or JIRA_PROJECT_KEY">> ELSE <<>>)

\* main: const config = loadConfig(), that is new Config() and config.validate()
LoadConfig ==
    /\ pc = "main"
    /\ LET made == Config(env)
           missing == MissingSettings(made)
       IN  IF missing = <<>>
           THEN /\ config' = made
                /\ pc' = "configured"
                /\ UNCHANGED <<exitCode, errorMessage>>
           ELSE /\ Fatal(Message("Missing required environment variables", missing))
                /\ UNCHANGED config
    /\ UNCHANGED <<issues, metrics, healthAnalysis, accomplishments,
                   llmReply, llmCalls, recommendations, allSummaries,
                   combinedSummary, summary, written, allMetrics,
                   outstanding, env, llmProvider, teamsToProcess, collect,
                   allSprintData, cursor, jiraCalls, log, slides>>

-----------------------------------------------------------------------------
(* The tracker's answers *)

\* What a JiraClient request settles to: the values of the response, or the
\* Error of request() (transport error or 'Jira API Error (status)').
Failure == [ok |-> FALSE, values |-> <<>>]
Values(v) == [ok |-> TRUE, values |-> v]

\* The names of the model as characters.
Chars(name) ==
    CASE name = "PROJ"        -> Proj
      [] name = "WEB2"        -> <<"W", "E", "B", "2">>
      [] name = "Team Alpha!" -> TeamAlpha
      [] name = "Team-Alpha!" -> <<"T", "e", "a", "m", "-", "A", "l", "p", "h", "a", "!">>
      [] name = "Beta"        -> <<"B", "e", "t", "a">>
      [] name = "blocked"     -> <<"b", "l", "o", "c", "k", "e", "d">>
      [] OTHER                -> <<>>

\* String.prototype.includes
Includes(hay, needle) ==
    \E i \in 0..(Len(hay) - Len(needle)) : SubSeq(hay, i + 1, i + Len(needle)) = needle

\* getBoards: data.values of /board?projectKeyOrId=...
BoardAnswers(projectKey) ==
    {Failure, Values(<<>>), Values(<<[id |-> projectKey, name |-> projectKey]>>)}

Sprint(id, name, state, endDate) ==
    [id |-> id, name |-> name, state |-> state, endDate |-> endDate]
Beta3 == Sprint(3, <<"b", "e", "t", "a", " ", "3">>, "closed", 3)
BETA5 == Sprint(5, <<"B", "E", "T", "A", " ", "5">>, "closed", 5)
Alpha4 ==
    Sprint(4, <<"P", "I", " ", "T", "e", "a", "m", " ", "a", "l", "p", "h", "a", "!">>,
           "closed", 4)
Beta6 == Sprint(6, <<"B", "e", "t", "a", " ", "6">>, "active", 6)

\* getSprints: data.values of /board/{id}/sprint
SprintAnswers ==
    {Failure, Values(<<>>), Values(<<Beta3, Alpha4>>), Values(<<Beta6, BETA5>>),
     Values(<<Beta6>>)}

\* getSprintIssues: data.issues of /sprint/{id}/issue, before the label filter
IssueAnswers ==
    {Failure, Values(<<>>),
     Values(Keyed(<<Issue(0, "Done", "Closed", {"Beta"}, "High", 0, 2),
                    Issue(0, "To Do", "Open", {"Team Alpha!"}, "Low", 3, 0)>>)),
     Values(Keyed(<<Issue(0, "In Progress", "Blocked", {"Beta", "blocked"}, NoPriority, 0, 0),
                    Issue(0, "Done", "Closed", {"Team Alpha!"}, "Highest", 0, 1)>>)),
     Values(Keyed(<<Issue(0, "Done", "Closed", {}, "Medium", 0, 0)>>))}

\* getTeamLabelsFromSprint: the labels array of each issue of data.issues
LabelAnswers ==
    {Failure, Values(<<>>), Values(<< <<"Beta">>, <<"Team Alpha!", "Beta">> >>),
     Values(<< <<"Team Alpha!", "blocked">>, <<>> >>)}

\* getProject: the project object
ProjectAnswers(projectKey) == {Failure, Values(<<projectKey>>)}

-----------------------------------------------------------------------------
(* JiraClient.getLastClosedSprintForTeam and collectSprintDataForTeam *)

\* sprint.state === 'closed' && sprint.name.toLowerCase().includes(teamLabel.toLowerCase())
TeamSprints(sprints, teamLabel) ==
    SelectSeq(sprints, LAMBDA sprint :
        sprint.state = "closed"
            /\ Includes(LowerCased(sprint.name), LowerCased(Chars(teamLabel))))

\* allMatchingSprints.sort((a, b) => new Date(b.sprint.endDate) - new
\* Date(a.sprint.endDate))[0]: the first of the entries with the latest end date.
MostRecent(matching) ==
    matching[CHOOSE i \in 1..Len(matching) :
                /\ \A j \in 1..Len(matching) :
                      matching[j].sprint.endDate <= matching[i].sprint.endDate
                /\ \A j \in 1..(i - 1) :
                      matching[j].sprint.endDate < matching[i].sprint.endDate]

\* issues.filter(issue => issue.fields.labels && issue.fields.labels.includes(teamLabel))
WithLabel(iss, teamLabel) == SelectSeq(iss, LAMBDA issue : teamLabel \in issue.labels)

Line(team, text, detail) == [team |-> team, text |-> text, detail |-> detail]

\* The catch block outside the for loop: the first failing team ends the collection.
AfterTeamErrorLeavesLoop(c) == [c EXCEPT !.team = Len(teamsToProcess)]

\* catch (error) { console.warn(...) } inside the for loop: on to the next team.
AfterTeamError(c) == c

\* JiraClient.request up to its await: fetch(url, ...) is issued.
JiraRequest ==
    /\ pc \in {"discover.getBoards", "discover.getSprints", "discover.getTeamLabelsFromSprint",
               "team.getBoards", "team.getSprints", "team.getSprintIssues", "team.getProject"}
    /\ collect' = [collect EXCEPT !.call = pc]
    /\ jiraCalls' = jiraCalls + 1
    /\ outstanding' = outstanding + 1
    /\ pc' = "jira"
    /\ UNCHANGED <<issues, metrics, healthAnalysis, accomplishments,
                   llmReply, llmCalls, recommendations, allSummaries,
                   combinedSummary, summary, written, allMetrics, env,
                   config, llmProvider, teamsToProcess, allSprintData,
                   cursor, log, slides, exitCode, errorMessage>>

\* collectAllSprintData: for (const teamLabel of teamsToProcess), and its return.
NextTeam ==
    /\ pc = "teams"
    /\ IF collect.team < Len(teamsToProcess)
       THEN /\ collect' = [NoCollect EXCEPT !.team = collect.team + 1, !.project = 1]
            /\ pc' = "team.getBoards"
       ELSE /\ collect' = NoCollect
            /\ pc' = "collected"
    /\ UNCHANGED <<issues, metrics, healthAnalysis, accomplishments,
                   llmReply, llmCalls, recommendations, allSummaries,
                   combinedSummary, summary, written, allMetrics,
                   outstanding, env, config, llmProvider, teamsToProcess,
                   allSprintData, cursor, jiraCalls, log, slides, exitCode,
                   errorMessage>>

\* getAllBoardsForProjects: one getBoards answer; after the last project the
\* throw of 'No boards found' when there is no board at all.
GetBoardsForTeam ==
    /\ pc = "jira"
    /\ collect.call = "team.getBoards"
    /\ \E answer \in BoardAnswers(config.projectKeys[collect.project]) :
          LET projectKey == config.projectKeys[collect.project]
              boards == [i \in 1..Len(answer.values) |->
                            [id |-> answer.values[i].id, name |-> answer.values[i].name,
                             projectKey |-> projectKey]]
              allBoards == collect.allBoards \o boards
              teamLabel == teamsToProcess[collect.team]
          IN  IF collect.project < Len(config.projectKeys)
              THEN /\ collect' = [collect EXCEPT !.allBoards = allBoards,
                                                 !.project = @ + 1, !.call = "none"]
                   /\ pc' = "team.getBoards"
                   /\ UNCHANGED log
              ELSE IF allBoards = <<>>
              THEN /\ collect' = AfterTeamError(collect)
                   /\ log' = Append(log, Line(teamLabel, "Could not collect data for team",
                                              "No boards found for projects"))
                   /\ pc' = "teams"
              ELSE /\ collect' = [collect EXCEPT !.allBoards = allBoards, !.board = 1,
                                                 !.call = "none"]
                   /\ pc' = "team.getSprints"
                   /\ UNCHANGED log
    /\ outstanding' = Settled(outstanding)
    /\ UNCHANGED <<issues, metrics, healthAnalysis, accomplishments,
                   llmReply, llmCalls, recommendations, allSummaries,
                   combinedSummary, summary, written, allMetrics, env,
                   config, llmProvider, teamsToProcess, allSprintData,
                   cursor, jiraCalls, slides, exitCode, errorMessage>>

\* getLastClosedSprintForTeam: one getSprints answer; after the last board the
\* throw of 'No closed sprints found', or the most recent matching sprint.
GetSprintsForTeam ==
    /\ pc = "jira"
    /\ collect.call = "team.getSprints"
    /\ \E answer \in SprintAnswers :
          LET board == collect.allBoards[collect.board]
              teamLabel == teamsToProcess[collect.team]
              teamSprints == TeamSprints(answer.values, teamLabel)
              matching ==
                  collect.matching
                      \o [i \in 1..Len(teamSprints) |->
                             [sprint |-> teamSprints[i], boardId |-> board.id,
                              projectKey |-> board.projectKey]]
          IN  IF collect.board < Len(collect.allBoards)
              THEN /\ collect' = [collect EXCEPT !.matching = matching, !.board = @ + 1,
                                                 !.call = "none"]
                   /\ pc' = "team.getSprints"
                   /\ UNCHANGED log
              ELSE IF matching = <<>>
              THEN /\ collect' = AfterTeamError(collect)
                   /\ log' = Append(log, Line(teamLabel, "Could not collect data for team",
                                              "No closed sprints found with team name"))
                   /\ pc' = "teams"
              ELSE /\ collect' = [collect EXCEPT !.matching = matching,
                                                 !.sprint = MostRecent(matching).sprint,
                                                 !.projectKey = MostRecent(matching).projectKey,
                                                 !.call = "none"]
                   /\ pc' = "team.getSprintIssues"
                   /\ UNCHANGED log
    /\ outstanding' = Settled(outstanding)
    /\ UNCHANGED <<issues, metrics, healthAnalysis, accomplishments,
                   llmReply, llmCalls, recommendations, allSummaries,
                   combinedSummary, summary, written, allMetrics, env,
                   config, llmProvider, teamsToProcess, allSprintData,
                   cursor, jiraCalls, slides, exitCode, errorMessage>>

\* collectSprintDataForTeam: getSprintIssues(sprint.id, teamLabel), then
\* getSprintTeamMembers(issues), which asks the tracker nothing.
GetSprintIssues ==
    /\ pc = "jira"
    /\ collect.call = "team.getSprintIssues"
    /\ \E answer \in IssueAnswers :
          LET teamLabel == teamsToProcess[collect.team]
          IN  IF answer.ok
              THEN /\ collect' = [collect EXCEPT !.issues = WithLabel(answer.values, teamLabel),
                                                 !.call = "none"]
                   /\ pc' = "team.getProject"
                   /\ UNCHANGED log
              ELSE /\ collect' = AfterTeamError(collect)
                   /\ log' = Append(log, Line(teamLabel, "Could not collect data for team",
                                              "Jira API Error"))
                   /\ pc' = "teams"
    /\ outstanding' = Settled(outstanding)
    /\ UNCHANGED <<issues, metrics, healthAnalysis, accomplishments,
                   llmReply, llmCalls, recommendations, allSummaries,
                   combinedSummary, summary, written, allMetrics, env,
                   config, llmProvider, teamsToProcess, allSprintData,
                   cursor, jiraCalls, slides, exitCode, errorMessage>>

\* collectSprintDataForTeam: getProject(projectKey) and the return; then
\* collectAllSprintData keeps the team if it has an issue.
GetProject ==
    /\ pc = "jira"
    /\ collect.call = "team.getProject"
    /\ \E answer \in ProjectAnswers(collect.projectKey) :
          LET teamLabel == teamsToProcess[collect.team]
              sprintData == [sprint |-> collect.sprint, issues |-> collect.issues,
                             projectKey |-> collect.projectKey, teamLabel |-> teamLabel]
          IN  IF ~answer.ok
              THEN /\ collect' = AfterTeamError(collect)
                   /\ log' = Append(log, Line(teamLabel, "Could not collect data for team",
                                              "Jira API Error"))
                   /\ UNCHANGED allSprintData
              ELSE IF Len(sprintData.issues) > 0
              THEN /\ allSprintData' = Append(allSprintData, sprintData)
                   /\ UNCHANGED <<collect, log>>
              ELSE /\ log' = Append(log, Line(teamLabel, "No issues found for team", "skipping"))
                   /\ UNCHANGED <<collect, allSprintData>>
    /\ pc' = "teams"
    /\ outstanding' = Settled(outstanding)
    /\ UNCHANGED <<issues, metrics, healthAnalysis, accomplishments,
                   llmReply, llmCalls, recommendations, allSummaries,
                   combinedSummary, summary, written, allMetrics, env,
                   config, llmProvider, teamsToProcess, cursor, jiraCalls,
                   slides, exitCode, errorMessage>>

-----------------------------------------------------------------------------
(* collectAllSprintData: the discovery of the team labels *)

RECURSIVE AddAll(_, _)
\* labels.forEach(label => discoveredLabels.add(label)): a Set keeps the order
\* of first insertion.
AddAll(seen, labels) ==
    IF labels = <<>> THEN seen
    ELSE AddAll(IF \E i \in 1..Len(seen) : seen[i] = Head(labels)
                THEN seen ELSE Append(seen, Head(labels)),
                Tail(labels))

RECURSIVE Flattened(_)
Flattened(lists) == IF lists = <<>> THEN <<>> ELSE Head(lists) \o Flattened(Tail(lists))

\* for (const projectKey of projectKeys): the next project, or the end of the
\* discovery with teamsToProcess = Array.from(discoveredLabels).
AfterProject(c) ==
    IF c.project < Len(config.projectKeys)
    THEN [pc |-> "discover.getBoards", teams |-> teamsToProcess,
          collect |-> [c EXCEPT !.project = @ + 1, !.board = 0, !.allBoards = <<>>,
                                !.call = "none"]]
    ELSE [pc |-> "teams", teams |-> c.discovered, collect |-> NoCollect]

\* for (const board of boards): the next board of the project in hand.
AfterBoard(c) ==
    IF c.board < Len(c.allBoards)
    THEN [pc |-> "discover.getSprints", teams |-> teamsToProcess,
          collect |-> [c EXCEPT !.board = @ + 1, !.call = "none"]]
    ELSE AfterProject(c)

\* collectAllSprintData up to its first request.
CollectAllSprintData ==
    /\ pc = "collecting"
    /\ IF config.teamLabels = <<>>
       THEN /\ collect' = [NoCollect EXCEPT !.project = 1]
            /\ pc' = "discover.getBoards"
            /\ UNCHANGED teamsToProcess
       ELSE /\ teamsToProcess' = config.teamLabels
            /\ pc' = "teams"
            /\ UNCHANGED collect
    /\ UNCHANGED <<issues, metrics, healthAnalysis, accomplishments,
                   llmReply, llmCalls, recommendations, allSummaries,
                   combinedSummary, summary, written, allMetrics,
                   outstanding, env, config, llmProvider, allSprintData,
                   cursor, jiraCalls, log, slides, exitCode, errorMessage>>

\* const boards = await this.jiraClient.getBoards(projectKey), or the outer catch
DiscoveryGetBoards ==
    /\ pc = "jira"
    /\ collect.call = "discover.getBoards"
    /\ \E answer \in BoardAnswers(config.projectKeys[collect.project]) :
          LET step == IF answer.values = <<>> THEN AfterProject(collect)
                      ELSE [pc |-> "discover.getSprints", teams |-> teamsToProcess,
                            collect |-> [collect EXCEPT !.allBoards = answer.values,
                                                        !.board = 1, !.call = "none"]]
          IN  /\ pc' = step.pc
              /\ collect' = step.collect
              /\ teamsToProcess' = step.teams
    /\ outstanding' = Settled(outstanding)
    /\ UNCHANGED <<issues, metrics, healthAnalysis, accomplishments,
                   llmReply, llmCalls, recommendations, allSummaries,
                   combinedSummary, summary, written, allMetrics, env,
                   config, llmProvider, allSprintData, cursor, jiraCalls,
                   log, slides, exitCode, errorMessage>>

\* const sprints = await this.jiraClient.getSprints(board.id) and the closed
\* filter, or the inner catch
DiscoveryGetSprints ==
    /\ pc = "jira"
    /\ collect.call = "discover.getSprints"
    /\ \E answer \in SprintAnswers :
          LET closedSprints == SelectSeq(answer.values, LAMBDA s : s.state = "closed")
              step == IF closedSprints = <<>> THEN AfterBoard(collect)
                      ELSE [pc |-> "discover.getTeamLabelsFromSprint", teams |-> teamsToProcess,
                            collect |-> [collect EXCEPT !.sprint = closedSprints[1],
                                                        !.call = "none"]]
          IN  /\ pc' = step.pc
              /\ collect' = step.collect
              /\ teamsToProcess' = step.teams
    /\ outstanding' = Settled(outstanding)
    /\ UNCHANGED <<issues, metrics, healthAnalysis, accomplishments,
                   llmReply, llmCalls, recommendations, allSummaries,
                   combinedSummary, summary, written, allMetrics, env,
                   config, llmProvider, allSprintData, cursor, jiraCalls,
                   log, slides, exitCode, errorMessage>>

\* const labels = await this.jiraClient.getTeamLabelsFromSprint(closedSprints[0].id),
\* or the inner catch
DiscoveryGetTeamLabels ==
    /\ pc = "jira"
    /\ collect.call = "discover.getTeamLabelsFromSprint"
    /\ \E answer \in LabelAnswers :
          LET step == AfterBoard([collect EXCEPT
                                     !.discovered = AddAll(@, Flattened(answer.values))])
          IN  /\ pc' = step.pc
              /\ collect' = step.collect
              /\ teamsToProcess' = step.teams
    /\ outstanding' = Settled(outstanding)
    /\ UNCHANGED <<issues, metrics, healthAnalysis, accomplishments,
                   llmReply, llmCalls, recommendations, allSummaries,
                   combinedSummary, summary, written, allMetrics, env,
                   config, llmProvider, allSprintData, cursor, jiraCalls,
                   log, slides, exitCode, errorMessage>>

-----------------------------------------------------------------------------
(* main: the loop over the collected entities *)

\* main without its early return.
CheckSprintDataGoesOn ==
    /\ pc = "collected"
    /\ pc' = "entities"
    /\ UNCHANGED <<issues, metrics, healthAnalysis, accomplishments,
                   llmReply, llmCalls, recommendations, allSummaries,
                   combinedSummary, summary, written, allMetrics,
                   outstanding, env, config, llmProvider, teamsToProcess,
                   collect, allSprintData, cursor, jiraCalls, log, slides,
                   exitCode, errorMessage>>

\* main: if (allSprintData.length === 0) { console.warn(...); return; }
CheckSprintData ==
    /\ pc = "collected"
    /\ IF allSprintData = <<>>
       THEN /\ pc' = "done"
            /\ exitCode' = 0
       ELSE /\ pc' = "entities"
            /\ UNCHANGED exitCode
    /\ UNCHANGED <<issues, metrics, healthAnalysis, accomplishments,
                   llmReply, llmCalls, recommendations, allSummaries,
                   combinedSummary, summary, written, allMetrics,
                   outstanding, env, config, llmProvider, teamsToProcess,
                   collect, allSprintData, cursor, jiraCalls, log, slides,
                   errorMessage>>

\* A combined summary whenever the toggle is set.
CombinedWantedForOne(cfg, summaries) == cfg.generateCombinedSummary /\ Len(summaries) >= 1

\* main: config.generateCombinedSummary && allSummaries.length > 1
CombinedWanted(cfg, summaries) == cfg.generateCombinedSummary /\ Len(summaries) > 1

\* A loop that takes the entities last to first.
EntityAtReversed(data, n) == data[Len(data) + 1 - n]

\* for (const sprintData of allSprintData): the n-th entity taken up
EntityAt(data, n) == data[n]

\* main: the head of the for loop, with the names of the entity taken up
\* (teamLabel || 'All Teams'); after the last entity the summary table and
\* the test for the combined summary.
NextEntity ==
    /\ pc \in {"entities", "markdown"}
    /\ IF cursor < Len(allSprintData)
       THEN LET sprintData == EntityAt(allSprintData, cursor + 1)
            IN  /\ cursor' = cursor + 1
                /\ issues' = sprintData.issues
                /\ summary' = [projectKey |-> Chars(sprintData.projectKey),
                               teamLabel |-> IF sprintData.teamLabel = "" THEN AllTeams
                                             ELSE Chars(sprintData.teamLabel)]
                /\ metrics' = NoMetrics
                /\ healthAnalysis' = NoHealth
                /\ accomplishments' = <<>>
                /\ llmReply' = NoReply
                /\ recommendations' = <<>>
                /\ pc' = "start"
       ELSE /\ pc' = IF CombinedWanted(config, allSummaries) THEN "summaries" ELSE "presentation"
            /\ UNCHANGED <<cursor, issues, summary, metrics, healthAnalysis, accomplishments,
                           llmReply, recommendations>>
    /\ UNCHANGED <<llmCalls, allSummaries, combinedSummary, written,
                   allMetrics, outstanding, env, config, llmProvider,
                   teamsToProcess, collect, allSprintData, jiraCalls, log,
                   slides, exitCode, errorMessage>>

\* The answers of the provider a run is checked with.
RunReplies ==
    {ErrorReply("transport"),
     TextReply(<<Fence, JsonWord,
                 ValueToken(JsonArray(<<JsonObject("Team Health", "High", "Pair up")>>)),
                 Fence>>)}

\* The await of generateRecommendations settles, in a run.
ReceiveRecommendationsOfRun == ReceiveFrom(RunReplies)

\* fs.writeFileSync throws (EACCES, ENOSPC, ...)
WriteError == Message("EACCES: permission denied", <<>>)

\* A try / catch around the save inside the loop: the error is printed and the
\* loop goes on.
SaveJSONThrowsCaught ==
    /\ pc = "summary"
    /\ errorMessage' = WriteError
    /\ pc' = "json"
    /\ UNCHANGED <<issues, metrics, healthAnalysis, accomplishments,
                   llmReply, llmCalls, recommendations, allSummaries,
                   combinedSummary, summary, written, allMetrics,
                   outstanding, env, config, llmProvider, teamsToProcess,
                   collect, allSprintData, cursor, jiraCalls, log, slides,
                   exitCode>>

\* saveJSON throws: nothing is written, main's catch block ends the run.
SaveJSONThrows ==
    /\ pc = "summary"
    /\ Fatal(WriteError)
    /\ UNCHANGED <<issues, metrics, healthAnalysis, accomplishments,
                   llmReply, llmCalls, recommendations, allSummaries,
                   combinedSummary, summary, written, allMetrics,
                   outstanding, env, config, llmProvider, teamsToProcess,
                   collect, allSprintData, cursor, jiraCalls, log, slides>>

\* saveMarkdown throws
SaveMarkdownThrows ==
    /\ pc = "json"
    /\ Fatal(WriteError)
    /\ UNCHANGED <<issues, metrics, healthAnalysis, accomplishments,
                   llmReply, llmCalls, recommendations, allSummaries,
                   combinedSummary, summary, written, allMetrics,
                   outstanding, env, config, llmProvider, teamsToProcess,
                   collect, allSprintData, cursor, jiraCalls, log, slides>>

-----------------------------------------------------------------------------
(* main: the combined summary *)

CombinedName == SprintSummaryPrefix \o <<"c", "o", "m", "b", "i", "n", "e", "d", ".">>

\* saveCombinedSummary: null for a null summary, else the JSON file, then the
\* Markdown file.
SaveCombinedSummary ==
    /\ pc = "combined"
    /\ written' = IF combinedSummary = <<>> THEN written
                  ELSE written \o <<CombinedName \o JsonExtension,
                                    CombinedName \o MarkdownExtension>>
    /\ pc' = "presentation"
    /\ UNCHANGED <<issues, metrics, healthAnalysis, accomplishments,
                   llmReply, llmCalls, recommendations, allSummaries,
                   combinedSummary, summary, allMetrics, outstanding, env,
                   config, llmProvider, teamsToProcess, collect,
                   allSprintData, cursor, jiraCalls, log, slides, exitCode,
                   errorMessage>>

\* saveCombinedSummary throws at its first or at its second writeFileSync.
SaveCombinedSummaryThrows ==
    /\ pc = "combined"
    /\ combinedSummary # <<>>
    /\ \/ UNCHANGED written
       \/ written' = Append(written, CombinedName \o JsonExtension)
    /\ Fatal(WriteError)
    /\ UNCHANGED <<issues, metrics, healthAnalysis, accomplishments,
                   llmReply, llmCalls, recommendations, allSummaries,
                   combinedSummary, summary, allMetrics, outstanding, env,
                   config, llmProvider, teamsToProcess, collect,
                   allSprintData, cursor, jiraCalls, log, slides>>

-----------------------------------------------------------------------------
(* PowerPointGenerator.generatePresentation *)

SlideSections == {"healthSummary", "accomplishments", "blockers", "recommendations"}

\* The JSON object of a slide answer: the sections it has, and those of them
\* that have a bullets array.
JsonSlides(sections, bulleted) ==
    [type |-> "slides", sections |-> sections, bulleted |-> bulleted]

\* LLMSummaryGenerator.parseSlideContent: the content, or the error thrown
\* (SyntaxError, the TypeError on null, 'Invalid content structure').
parseSlideContent(text) ==
    LET cleaned == StripFences(text)
    IN  IF ~JsonParses(cleaned) THEN Threw
        ELSE LET v == cleaned[1].value
             IN  IF v.type # "slides" THEN Threw
                 ELSE IF ~(SlideSections \subseteq v.sections) THEN Threw
                 ELSE Returned(<<[source |-> "llm", bulleted |-> v.bulleted]>>)

\* generateFallbackContent: four sections, each with bullets
FallbackContent == [source |-> "fallback", bulleted |-> SlideSections]

\* LLMSummaryGenerator.generateSlideContent after its await
generateSlideContent(reply) ==
    IF reply.kind \in ErrorKinds THEN FallbackContent
    ELSE LET parsed == parseSlideContent(reply.text)
         IN  IF parsed.ok THEN parsed.value[1] ELSE FallbackContent

SlideReplies ==
    {ErrorReply("status"),
     TextReply(<<Fence, JsonWord, ValueToken(JsonSlides(SlideSections, SlideSections)), Fence>>),
     TextReply(<<ValueToken(JsonSlides(SlideSections \ {"blockers"}, SlideSections))>>),
     TextReply(<<ValueToken(JsonSlides(SlideSections, {"healthSummary"}))>>)}

OverviewSlide == [kind |-> "overview", team |-> <<>>, source |-> "summaries"]
TeamSlide(sm, content) == [kind |-> "team", team |-> sm.teamLabel, source |-> content.source]

PresentationName ==
    SprintSummaryPrefix
        \o <<"p", "r", "e", "s", "e", "n", "t", "a", "t", "i", "o", "n", ".", "p", "p", "t", "x">>

\* main: new PowerPointGenerator(provider, apiKey, model), whose
\* LLMSummaryGenerator calls createLLMProvider; generatePresentation up to
\* its loop: createOverviewSlide(allSummaries).
BeginPresentation ==
    /\ pc = "presentation"
    /\ LET llmConfig == getLLMConfig(config)
           made == createLLMProvider(llmConfig.provider, llmConfig.model)
       IN  IF made.ok
           THEN /\ slides' = <<OverviewSlide>>
                /\ pc' = "slides"
                /\ UNCHANGED <<exitCode, errorMessage>>
           ELSE /\ Fatal(made.message)
                /\ UNCHANGED slides
    /\ UNCHANGED <<issues, metrics, healthAnalysis, accomplishments,
                   llmReply, llmCalls, recommendations, allSummaries,
                   combinedSummary, summary, written, allMetrics,
                   outstanding, env, config, llmProvider, teamsToProcess,
                   collect, allSprintData, cursor, jiraCalls, log>>

\* createTeamSlide(allSummaries[i], ...) up to the await of generateSlideContent
RequestSlideContent ==
    /\ pc = "slides"
    /\ Len(slides) - 1 < Len(allSummaries)
    /\ llmCalls' = llmCalls + 1
    /\ outstanding' = outstanding + 1
    /\ pc' = "slide"
    /\ UNCHANGED <<issues, metrics, healthAnalysis, accomplishments,
                   llmReply, recommendations, allSummaries, combinedSummary,
                   summary, written, allMetrics, env, config, llmProvider,
                   teamsToProcess, collect, allSprintData, cursor,
                   jiraCalls, log, slides, exitCode, errorMessage>>

\* createTeamSlide after the await: the texts are added to the slide;
\* slideContent.<section>.bullets.slice(0, 5) throws a TypeError when an
\* accepted answer has a section without bullets.
ReceiveSlideContent ==
    /\ pc = "slide"
    /\ \E reply \in SlideReplies :
          LET content == generateSlideContent(reply)
              sm == allSummaries[Len(slides)]
          IN  IF content.bulleted = SlideSections
              THEN /\ slides' = Append(slides, TeamSlide(sm, content))
                   /\ pc' = "slides"
                   /\ UNCHANGED <<exitCode, errorMessage>>
              ELSE /\ Fatal(Message("Cannot read properties of undefined (reading 'slice')",
                                    <<>>))
                   /\ UNCHANGED slides
    /\ outstanding' = Settled(outstanding)
    /\ UNCHANGED <<issues, metrics, healthAnalysis, accomplishments,
                   llmReply, llmCalls, recommendations, allSummaries,
                   combinedSummary, summary, written, allMetrics, env,
                   config, llmProvider, teamsToProcess, collect,
                   allSprintData, cursor, jiraCalls, log>>

\* generatePresentation: await this.pptx.writeFile({ fileName: filePath }); main
\* then returns.
SavePresentation ==
    /\ pc = "slides"
    /\ Len(slides) - 1 = Len(allSummaries)
    /\ written' = Append(written, PresentationName)
    /\ pc' = "done"
    /\ exitCode' = 0
    /\ UNCHANGED <<issues, metrics, healthAnalysis, accomplishments,
                   llmReply, llmCalls, recommendations, allSummaries,
                   combinedSummary, summary, allMetrics, outstanding, env,
                   config, llmProvider, teamsToProcess, collect,
                   allSprintData, cursor, jiraCalls, log, slides,
                   errorMessage>>

\* this.pptx.writeFile throws
SavePresentationThrows ==
    /\ pc = "slides"
    /\ Len(slides) - 1 = Len(allSummaries)
    /\ Fatal(WriteError)
    /\ UNCHANGED <<issues, metrics, healthAnalysis, accomplishments,
                   llmReply, llmCalls, recommendations, allSummaries,
                   combinedSummary, summary, written, allMetrics,
                   outstanding, env, config, llmProvider, teamsToProcess,
                   collect, allSprintData, cursor, jiraCalls, log, slides>>

-----------------------------------------------------------------------------
(* Specification of a run of main over sampled settings and answers *)

BaseEnv ==
    [JIRA_HOST |-> "acme.atlassian.net", JIRA_EMAIL |-> "dev@acme.io",
     JIRA_API_TOKEN |-> "token", JIRA_PROJECT_KEYS |-> <<"PROJ">>,
     JIRA_PROJECT_KEY |-> <<>>, TEAM_LABELS |-> <<"Team Alpha!", ",", " ", "Beta", ",">>,
     GENERATE_COMBINED_SUMMARY |-> "true", LLM_PROVIDER |-> <<>>, LLM_MODEL |-> ""]

\* Settings with every combination of the required ones set and unset.
RequiredEnvs ==
    {[BaseEnv EXCEPT !.JIRA_HOST = h, !.JIRA_EMAIL = m, !.JIRA_API_TOKEN = t,
                     !.JIRA_PROJECT_KEYS = ks, !.JIRA_PROJECT_KEY = k] :
        h \in {"", "acme.atlassian.net"}, m \in {"", "dev@acme.io"}, t \in {"", "token"},
        ks \in {<<>>, <<" ", ",">>, <<"PROJ">>}, k \in {<<>>, <<"WEB2">>}}

\* Settings loadConfig accepts, with the optional ones varied.
OptionalEnvs ==
    {[BaseEnv EXCEPT !.JIRA_PROJECT_KEYS = ks, !.TEAM_LABELS = ts,
                     !.GENERATE_COMBINED_SUMMARY = g, !.LLM_PROVIDER = p] :
        ks \in {<<"PROJ">>, <<"PROJ", ",", " ", "WEB2">>},
        ts \in {<<>>, <<"Beta">>, <<"Team Alpha!", ",", " ", "Beta", ",">>},
        g \in {"true", "false"},
        p \in {<<"O", "p", "e", "n", "A", "I">>, <<"g", "e", "m", "i", "n", "i">>}}

Envs == RequiredEnvs \cup OptionalEnvs

InitMain ==
    /\ pc = "main"
    /\ env \in Envs
    /\ issues = <<>>
    /\ metrics = NoMetrics
    /\ healthAnalysis = NoHealth
    /\ accomplishments = <<>>
    /\ llmReply = NoReply
    /\ llmCalls = 0
    /\ recommendations = <<>>
    /\ allSummaries = <<>>
    /\ combinedSummary = <<>>
    /\ summary = NoSummary
    /\ written = <<>>
    /\ config = NoConfig
    /\ llmProvider = NoProvider
    /\ teamsToProcess = <<>>
    /\ collect = NoCollect
    /\ allSprintData = <<>>
    /\ allMetrics = <<>>
    /\ cursor = 0
    /\ jiraCalls = 0
    /\ outstanding = 0
    /\ log = <<>>
    /\ slides = <<>>
    /\ exitCode = NoExit
    /\ errorMessage = NoMessage

NextMain ==
    \/ LoadConfig
    \/ Construct
    \/ CollectAllSprintData
    \/ JiraRequest
    \/ DiscoveryGetBoards
    \/ DiscoveryGetSprints
    \/ DiscoveryGetTeamLabels
    \/ NextTeam
    \/ GetBoardsForTeam
    \/ GetSprintsForTeam
    \/ GetSprintIssues
    \/ GetProject
    \/ CheckSprintData
    \/ NextEntity
    \/ CalculateMetrics
    \/ AnalyzeSprintHealth
    \/ ExtractAccomplishments
    \/ RequestRecommendations
    \/ ReceiveRecommendationsOfRun
    \/ GenerateSummary
    \/ SaveJSON
    \/ SaveJSONThrows
    \/ SaveMarkdown
    \/ SaveMarkdownThrows
    \/ GenerateCombinedSummary
    \/ SaveCombinedSummary
    \/ SaveCombinedSummaryThrows
    \/ BeginPresentation
    \/ RequestSlideContent
    \/ ReceiveSlideContent
    \/ SavePresentation
    \/ SavePresentationThrows

SpecMain == InitMain /\ [][NextMain]_vars

-----------------------------------------------------------------------------
(* Claims about a run of main *)

\* A setting that holds no name: only commas and blanks, or nothing.
NoName(s) == \A i \in 1..Len(s) : s[i] \in {",", " "}

RequiredMissing(e) ==
    \/ e.JIRA_HOST = ""
    \/ e.JIRA_EMAIL = ""
    \/ e.JIRA_API_TOKEN = ""
    \/ NoName(e.JIRA_PROJECT_KEYS) /\ NoName(e.JIRA_PROJECT_KEY)

\* C11: when the tracker host, the e-mail, the API token or every project key
\* is missing, loadConfig throws, main ends with exit code 1 and the 'Missing
\* required environment variables' message, and no tracker request and no
\* text-generation request has been issued.
C11_ConfigFatal ==
    RequiredMissing(env) =>
        /\ pc \in {"main", "exit"}
        /\ jiraCalls = 0
        /\ llmCalls = 0
        /\ outstanding = 0
        /\ config = NoConfig
        /\ pc = "exit" =>
              /\ exitCode = 1
              /\ errorMessage.text = "Missing required environment variables"
              /\ errorMessage.detail # <<>>

\* Only the project keys are missing.
C11_Witness ==
    /\ pc = "exit"
    /\ env.JIRA_HOST # ""
    /\ env.JIRA_EMAIL # ""
    /\ env.JIRA_API_TOKEN # ""
    /\ env.JIRA_PROJECT_KEYS = <<" ", ",">>
    /\ env.JIRA_PROJECT_KEY = <<>>
    /\ exitCode = 1
    /\ errorMessage.detail = <<"JIRA_PROJECT_KEYS or JIRA_PROJECT_KEY">>

CollectionSteps ==
    {"collecting", "jira", "teams", "discover.getBoards", "discover.getSprints",
     "discover.getTeamLabelsFromSprint", "team.getBoards", "team.getSprints",
     "team.getSprintIssues", "team.getProject"}

\* The place of a team label in the list of the teams to collect.
Place(teamLabel) == CHOOSE i \in 1..Len(teamsToProcess) : teamsToProcess[i] = teamLabel

\* C12: collectAllSprintData never throws, and when it returns every team of
\* its list has been taken up: a team is either in the result, with at least
\* one issue, all carrying its label, or in one warning / skip line, never in
\* both, and the result keeps the order of the list; a failed team changes
\* nothing for the teams before and after it.
C12_TeamFailureIsolated ==
    /\ (pc = "exit" /\ jiraCalls > 0) => allSummaries # <<>>
    /\ pc = "teams" => Len(allSprintData) + Len(log) = collect.team
    /\ pc \notin (CollectionSteps \cup {"main", "configured", "exit"}) =>
          /\ Len(allSprintData) + Len(log) = Len(teamsToProcess)
          /\ \A t \in 1..Len(teamsToProcess) :
                (\E i \in 1..Len(allSprintData) :
                    allSprintData[i].teamLabel = teamsToProcess[t])
                    # (\E i \in 1..Len(log) : log[i].team = teamsToProcess[t])
          /\ \A i \in 1..Len(allSprintData) :
                /\ Len(allSprintData[i].issues) > 0
                /\ \A k \in 1..Len(allSprintData[i].issues) :
                      allSprintData[i].teamLabel \in allSprintData[i].issues[k].labels
          /\ \A i, j \in 1..Len(allSprintData) :
                i < j => Place(allSprintData[i].teamLabel) < Place(allSprintData[j].teamLabel)

\* The first team failed its lookup, the second one was collected.
C12_Witness ==
    /\ pc = "collected"
    /\ teamsToProcess = <<"Team Alpha!", "Beta">>
    /\ Len(log) = 1
    /\ log[1].team = "Team Alpha!"
    /\ log[1].detail = "No closed sprints found with team name"
    /\ Len(allSprintData) = 1
    /\ allSprintData[1].teamLabel = "Beta"

EntitySteps ==
    {"start", "metrics", "health", "extracted", "awaiting", "recommended", "summary",
     "json", "markdown"}

\* The identifiers of a collected entity as generateSummary stores them.
Names(sprintData) ==
    [projectKey |-> Chars(sprintData.projectKey), teamLabel |-> Chars(sprintData.teamLabel)]

\* C13: at most one network request is outstanding at any time; while the
\* loop is at its n-th entity, every entity before it has its summary, its one
\* recommendation call and its JSON and Markdown files, in that order, and no
\* later entity has anything; the teams to collect are the configured ones in
\* their order, and the summaries, the metrics and the team slides follow the
\* order of the collected entities.
C13_OneAtATime ==
    /\ outstanding \in {0, 1}
    /\ outstanding = 1 <=> pc \in {"jira", "awaiting", "slide"}
    /\ (config.teamLabels # <<>> /\ jiraCalls > 0) => teamsToProcess = config.teamLabels
    /\ pc \in EntitySteps =>
          /\ cursor \in 1..Len(allSprintData)
          /\ llmCalls = (cursor - 1)
                          + (IF pc \in {"start", "metrics", "health", "extracted"} THEN 0 ELSE 1)
          /\ Len(allSummaries) = (cursor - 1)
                                   + (IF pc \in {"summary", "json", "markdown"} THEN 1 ELSE 0)
          /\ Len(written) = 2 * (cursor - 1)
                              + (IF pc = "json" THEN 1 ELSE IF pc = "markdown" THEN 2 ELSE 0)
          /\ summary = Names(allSprintData[cursor])
    /\ \A i \in 1..Len(allSummaries) :
          /\ allSummaries[i].teamLabel = Names(allSprintData[i]).teamLabel
          /\ allSummaries[i].projectKey = Names(allSprintData[i]).projectKey
          /\ allMetrics[i].totalIssues = Len(allSprintData[i].issues)
          /\ (i < cursor \/ pc = "markdown") =>
                /\ written[2 * i - 1] = generateFilename(Names(allSprintData[i]), JsonExtension)
                /\ written[2 * i] = generateFilename(Names(allSprintData[i]), MarkdownExtension)
    /\ \A i \in 2..Len(slides) :
          /\ i - 1 <= Len(allSummaries)
          /\ slides[i].team = allSummaries[i - 1].teamLabel

\* The second of two entities waits for its recommendations.
C13_Witness ==
    /\ pc = "awaiting"
    /\ cursor = 2
    /\ outstanding = 1
    /\ llmCalls = 2
    /\ Len(written) = 2
    /\ allSummaries[1].teamLabel = TeamAlpha
    /\ allSprintData[2].teamLabel = "Beta"

Holds(name) == \E i \in 1..Len(written) : written[i] = name
Count(name) == Cardinality({i \in 1..Len(written) : written[i] = name})

C15_SavesOfARun ==
    (pc = "done" /\ Len(allSprintData) >= 1) =>
        LET n == Len(allSprintData)
        IN  /\ Len(allSummaries) = n
            /\ Len(written) = 2 * n + (IF combinedSummary # <<>> THEN 2 ELSE 0) + 1
            /\ \A i \in 1..n :
                  /\ written[2 * i - 1] = generateFilename(allSummaries[i], JsonExtension)
                  /\ written[2 * i] = generateFilename(allSummaries[i], MarkdownExtension)
            /\ combinedSummary # <<>> =>
                  /\ written[2 * n + 1] = CombinedName \o JsonExtension
                  /\ written[2 * n + 2] = CombinedName \o MarkdownExtension
            /\ written[Len(written)] = PresentationName
            /\ Count(PresentationName) = 1
            /\ exitCode = 0

\* Two entities, no combined summary: five files.
C15_Witness ==
    /\ pc = "done"
    /\ Len(allSprintData) = 2
    /\ combinedSummary = <<>>
    /\ Len(written) = 5
    /\ written[5] = PresentationName

\* C16: when collectAllSprintData returns no entity, main returns at once:
\* nothing is written, no slide is made, no combined summary is built and no
\* text-generation request is issued.
C16_NothingCollected ==
    /\ allSprintData = <<>> => (written = <<>> /\ llmCalls = 0)
    /\ (allSprintData = <<>> /\ pc \notin (CollectionSteps \cup {"main", "configured", "exit"})) =>
          /\ pc \in {"collected", "done"}
          /\ slides = <<>>
          /\ combinedSummary = <<>>
          /\ allSummaries = <<>>
          /\ outstanding = 0
          /\ pc = "done" => exitCode = 0

\* Both configured teams were skipped.
C16_Witness ==
    /\ pc = "done"
    /\ allSprintData = <<>>
    /\ Len(teamsToProcess) = 2
    /\ Len(log) = 2
    /\ jiraCalls > 0
    /\ written = <<>>

\* C17: an error that reaches main's catch block ends the run with exit code
\* 1 and its message: from then on no entity is taken up, no request is issued
\* and no file is written; a write error leaves the presentation unwritten.
C17_EscapedErrorIsFatal ==
    /\ [](errorMessage # NoMessage => (pc = "exit" /\ exitCode = 1))
    /\ [](pc = "exit" => (exitCode = 1 /\ errorMessage # NoMessage /\ outstanding = 0))
    /\ [](errorMessage = WriteError => (~Holds(PresentationName) /\ Len(allSummaries) = cursor))
    /\ [][errorMessage # NoMessage =>
            UNCHANGED <<cursor, written, allSummaries, llmCalls, jiraCalls, slides, pc>>]_vars

\* saveJSON failed for the first of two entities.
C17_Witness ==
    /\ pc = "exit"
    /\ exitCode = 1
    /\ errorMessage = WriteError
    /\ Len(allSprintData) = 2
    /\ cursor = 1
    /\ written = <<>>

-----------------------------------------------------------------------------
(* Further claims about analyzeSprintHealth *)

\* C21: the indicators are Velocity, Completion Rate, then Blockers iff
\* blockedIssues > 0, then Work in Progress iff inProgressIssues >
\* completedIssues, in this order; and the overall rating is the same for every
\* metrics record that differs only in its in-progress and completed counts.
C21_IndicatorOrder ==
    pc = "health" =>
        LET ind == healthAnalysis.healthIndicators
            names == [i \in 1..Len(ind) |-> ind[i].indicator]
            wip == metrics.inProgressIssues > metrics.completedIssues
        IN  /\ names = <<"Velocity", "Completion Rate">>
                         \o (IF metrics.blockedIssues > 0 THEN <<"Blockers">> ELSE <<>>)
                         \o (IF wip THEN <<"Work in Progress">> ELSE <<>>)
            /\ \A w, d \in 0..MaxCount :
                  analyzeSprintHealth([metrics EXCEPT !.inProgressIssues = w,
                                                      !.completedIssues = d]).overallHealth
                      = healthAnalysis.overallHealth

\* A Good rating beside the Work in Progress warning.
C21_Witness ==
    /\ pc = "health"
    /\ metrics.velocityPercentage = 850
    /\ metrics.completionRate = 900
    /\ metrics.inProgressIssues > metrics.completedIssues
    /\ metrics.blockedIssues = 0
    /\ Len(healthAnalysis.healthIndicators) = 3
    /\ healthAnalysis.healthIndicators[3].indicator = "Work in Progress"
    /\ healthAnalysis.overallHealth = "Good"

-----------------------------------------------------------------------------
(* Further claims about the blocked tag *)

\* The status names of the model that contain 'block' in some letter case.
MentionsBlock(statusName) == statusName \in {"Blocked", "BLOCKED - vendor"}

\* The places of the issue list that hold a blocked issue, as the claim names them.
BlockedPlaces(iss) ==
    {i \in 1..Len(iss) : "blocked" \in iss[i].labels \/ MentionsBlock(iss[i].statusName)}

\* The keys of the issues at the given places, in the order of the list.
RECURSIVE KeysAt(_, _, _)
KeysAt(iss, places, from) ==
    IF from > Len(iss) THEN <<>>
    ELSE (IF from \in places THEN <<iss[from].key>> ELSE <<>>) \o KeysAt(iss, places, from + 1)

\* C22: blockedIssues counts exactly the issues that carry the label 'blocked'
\* or whose status name contains 'block', whatever their status bucket, so
\* the three bucket counts still add up to totalIssues and blockedIssues <=
\* totalIssues; the blockers of the summary are exactly these issues, all of
\* them, in input order.
C22_BlockedTag ==
    /\ pc # "start" =>
          /\ metrics.blockedIssues = Cardinality(BlockedPlaces(issues))
          /\ metrics.blockedIssues <= metrics.totalIssues
          /\ metrics.completedIssues + metrics.inProgressIssues + metrics.todoIssues
                = metrics.totalIssues
          /\ metrics.completedIssues
                = Cardinality({i \in 1..Len(issues) : issues[i].statusCategory = "Done"})
    /\ pc \in {"summary", "json", "markdown"} =>
          LET blockers == allSummaries[Len(allSummaries)].currentBlockers
          IN  [i \in 1..Len(blockers) |-> blockers[i].key]
                  = KeysAt(issues, BlockedPlaces(issues), 1)

\* Two blocked issues, the first one also counted as completed, the second
\* one as in progress.
C22_Witness ==
    /\ pc = "summary"
    /\ Len(issues) = 2
    /\ issues[1].statusCategory = "Done"
    /\ "blocked" \in issues[1].labels
    /\ issues[2].statusName = "Blocked"
    /\ metrics.blockedIssues = 2
    /\ metrics.completedIssues = 1
    /\ metrics.inProgressIssues = 1
    /\ Len(allSummaries[1].currentBlockers) = 2

-----------------------------------------------------------------------------
(* Specification of generateCombinedSummary over summaries with long lists *)

MaxListSummaries == 3   \* longest list of per-entity summaries
ManyDone == 11          \* done issues of an entity with many of them
ManyBlocked == 12       \* blocked issues of an entity with many of them

\* The issues of an entity: d done issues whose story points (customfield_10016)
\* cycle through 0, 1, 2 starting at q, then b issues with the label 'blocked',
\* in progress and not started in turn.
ListIssues(d, b, q) ==
    [i \in 1..(d + b) |->
        IF i <= d
        THEN Issue(i, "Done", "Closed", {}, "Medium", 0, (i + q) % 3)
        ELSE Issue(i, IF (i - d) % 2 = 1 THEN "In Progress" ELSE "To Do", "Open",
                   {"blocked"}, "High", 0, 1)]

\* The summary main builds for these issues.
ListSummary(iss) ==
    LET m == calculateMetrics(iss)
    IN  Summary(Proj, AllTeams, m, analyzeSprintHealth(m).overallHealth,
                extractBlockers(m), extractAccomplishments(m), 1)

ListSummaries ==
    {ListSummary(ListIssues(d, b, q)) : d \in {1, ManyDone}, b \in {0, ManyBlocked}, q \in {0, 1}}

\* The i-th entity of a run: its team label, and one of two project keys.
Entitled(summaries) ==
    [i \in 1..Len(summaries) |->
        [summaries[i] EXCEPT !.teamLabel = TeamNames[i],
                             !.projectKey = IF i % 2 = 1 THEN Proj ELSE Chars("WEB2")]]

InitCombinedLists ==
    /\ pc = "summaries"
    /\ issues = <<>>
    /\ metrics = NoMetrics
    /\ allSummaries \in {Entitled(s) : s \in SeqsUpTo(ListSummaries, MaxListSummaries) \ {<<>>}}
    /\ summary = NoSummary
    /\ InitOutputs

NextCombinedLists == GenerateCombinedSummary

SpecCombinedLists == InitCombinedLists /\ [][NextCombinedLists]_vars

\* C23: each of the seven additive metrics of the combined summary is the sum
\* of that metric over the input summaries, and the per-team rows name the
\* entities of the input, one row each, in input order.
C23_SumsAndRows ==
    (pc = "combined" /\ Len(allSummaries) > 0) =>
        LET out == combinedSummary[1]
        IN  /\ \A f \in {"totalIssues", "completedIssues", "inProgressIssues", "todoIssues",
                         "blockedIssues", "totalStoryPoints", "completedStoryPoints"} :
                  out.sprintHealthMetrics[f] = SumSeq(Field(allSummaries, f))
            /\ Len(out.teamSummaries) = Len(allSummaries)
            /\ \A i \in 1..Len(allSummaries) :
                  /\ out.teamSummaries[i].team = allSummaries[i].teamLabel
                  /\ out.teamSummaries[i].project = allSummaries[i].projectKey

\* Three entities with blocked issues in the first two.
C23_Witness ==
    /\ pc = "combined"
    /\ Len(allSummaries) = 3
    /\ allSummaries[1].sprintHealthMetrics.blockedIssues = ManyBlocked
    /\ allSummaries[2].sprintHealthMetrics.blockedIssues = ManyBlocked
    /\ allSummaries[3].sprintHealthMetrics.blockedIssues = 0
    /\ combinedSummary[1].sprintHealthMetrics.blockedIssues = 2 * ManyBlocked
    /\ combinedSummary[1].sprintHealthMetrics.completedStoryPoints > 0
    /\ combinedSummary[1].teamSummaries[2].project = Chars("WEB2")

\* The entries of field f of all summaries as pairs <<summary, place>>, in
\* processing order.
RECURSIVE Sources(_, _, _)
Sources(summaries, f, from) ==
    IF from > Len(summaries) THEN <<>>
    ELSE [k \in 1..Len(summaries[from][f]) |-> <<from, k>>] \o Sources(summaries, f, from + 1)

\* The entry a pair names, with the team and the project of its summary.
FromSource(summaries, f, pair) ==
    [entry |-> summaries[pair[1]][f][pair[2]],
     team |-> summaries[pair[1]].teamLabel,
     project |-> summaries[pair[1]].projectKey]

Smaller(a, b) == IF a < b THEN a ELSE b

\* C24: the combined blockers are the first 20 of the per-entity blockers
\* concatenated in processing order; the combined accomplishments are the
\* per-entity accomplishments concatenated, put in descending order of story
\* points with ties in concatenation order, and cut to 20; every entry names the
\* team and the project of the summary it was taken from.
C24_CombinedLists ==
    (pc = "combined" /\ Len(allSummaries) > 0) =>
        LET out == combinedSummary[1]
            blockers == Sources(allSummaries, "currentBlockers", 1)
            accs == Sources(allSummaries, "keyAccomplishments", 1)
            points(n) == FromSource(allSummaries, "keyAccomplishments", accs[n]).entry.storyPoints
            \* the place of the n-th accomplishment after the sort
            place(n) == 1 + Cardinality({j \in 1..Len(accs) :
                                            \/ points(j) > points(n)
                                            \/ points(j) = points(n) /\ j < n})
        IN  /\ Len(out.currentBlockers) = Smaller(Len(blockers), TopCombined)
            /\ \A n \in 1..Len(out.currentBlockers) :
                  out.currentBlockers[n] = FromSource(allSummaries, "currentBlockers", blockers[n])
            /\ Len(out.keyAccomplishments) = Smaller(Len(accs), TopCombined)
            /\ \A n \in 1..Len(accs) :
                  place(n) <= TopCombined =>
                      out.keyAccomplishments[place(n)]
                          = FromSource(allSummaries, "keyAccomplishments", accs[n])

\* More than 20 blockers and more than 20 accomplishments from three entities;
\* the first place goes to an accomplishment of the second summary.
C24_Witness ==
    /\ pc = "combined"
    /\ Len(allSummaries) = 3
    /\ Len(Sources(allSummaries, "currentBlockers", 1)) > TopCombined
    /\ Len(Sources(allSummaries, "keyAccomplishments", 1)) > TopCombined
    /\ Len(combinedSummary[1].currentBlockers) = TopCombined
    /\ Len(combinedSummary[1].keyAccomplishments) = TopCombined
    /\ allSummaries[1].keyAccomplishments[1].storyPoints < 2
    /\ Len(allSummaries[1].keyAccomplishments) = 1
    /\ combinedSummary[1].keyAccomplishments[1].team = TeamNames[2]
    /\ combinedSummary[1].keyAccomplishments[1].project = Chars("WEB2")
    /\ combinedSummary[1].currentBlockers[TopCombined].team = TeamNames[2]

-----------------------------------------------------------------------------
(* Further claims about the extractors *)

\* C25: extractAccomplishments leaves its inputs as they were: after the call
\* the metrics record, and in it the completed bucket with its order, is the
\* one calculateMetrics returned for the unchanged issue list.
C25_ExtractorPure ==
    pc = "extracted" =>
        /\ metrics = calculateMetrics(issues)
        /\ metrics.statusGroups.completed
              = SelectSeq(issues, LAMBDA i : i.statusCategory = "Done")

-----------------------------------------------------------------------------
(* Specification of the loop of main over the collected entities *)

ReportLabels == {"Team Alpha!", "Team-Alpha!", "Beta"}

\* What collectSprintDataForTeam returns for a team: its last closed sprint, the
\* issues of that sprint that carry its label, and the project the sprint's
\* board belongs to.
ReportData(teamLabel) ==
    {[sprint |-> Sprint(4, Chars(teamLabel), "closed", 4), issues |-> Keyed(iss),
      projectKey |-> k, teamLabel |-> teamLabel] :
        k \in {"PROJ", "WEB2"},
        iss \in {<<Issue(0, "Done", "Closed", {teamLabel}, "High", 0, 2)>>,
                 <<Issue(0, "To Do", "Open", {teamLabel, "blocked"}, "Low", 3, 0),
                   Issue(0, "Done", "Closed", {teamLabel}, "Highest", 0, 1)>>}}

\* TEAM_LABELS with one or two distinct team labels.
ReportTeams ==
    {<<a>> : a \in ReportLabels}
        \cup {<<p[1], ",", p[2]>> : p \in {q \in ReportLabels \X ReportLabels : q[1] # q[2]}}

\* main has loaded the configuration, built its objects and collected an
\* entity for every team; the tracker was asked six times per team (the boards
\* and the sprints of two projects, the issues, the project).
InitReports ==
    /\ pc = "entities"
    /\ \E ts \in ReportTeams :
          /\ env = [BaseEnv EXCEPT !.JIRA_PROJECT_KEYS = <<"PROJ", ",", " ", "WEB2">>,
                                   !.TEAM_LABELS = ts]
          /\ config = Config(env)
          /\ teamsToProcess = config.teamLabels
          /\ allSprintData \in
                {s \in SeqsUpTo(UNION {ReportData(l) : l \in ReportLabels}, 2) :
                    /\ Len(s) = Len(teamsToProcess)
                    /\ \A i \in 1..Len(s) : s[i].teamLabel = teamsToProcess[i]}
    /\ llmProvider = createLLMProvider(getLLMConfig(config).provider,
                                       getLLMConfig(config).model).provider
    /\ jiraCalls = 6 * Len(teamsToProcess)
    /\ collect = NoCollect
    /\ issues = <<>>
    /\ metrics = NoMetrics
    /\ healthAnalysis = NoHealth
    /\ accomplishments = <<>>
    /\ llmReply = NoReply
    /\ llmCalls = 0
    /\ recommendations = <<>>
    /\ allSummaries = <<>>
    /\ combinedSummary = <<>>
    /\ summary = NoSummary
    /\ written = <<>>
    /\ allMetrics = <<>>
    /\ cursor = 0
    /\ outstanding = 0
    /\ log = <<>>
    /\ slides = <<>>
    /\ exitCode = NoExit
    /\ errorMessage = NoMessage

NextReports ==
    \/ NextEntity
    \/ CalculateMetrics
    \/ AnalyzeSprintHealth
    \/ ExtractAccomplishments
    \/ RequestRecommendations
    \/ ReceiveRecommendationsOfRun
    \/ GenerateSummary
    \/ SaveJSON
    \/ SaveMarkdown

SpecReports == InitReports /\ [][NextReports]_vars

\* C26: the entities of a run have pairwise distinct (project key, team label)
\* pairs, and no file name is written twice in the run: no report of an entity
\* replaces the report of another one.
C26_NoOverwrite ==
    /\ \A i, j \in 1..Len(allSprintData) :
          i # j => <<allSprintData[i].projectKey, allSprintData[i].teamLabel>>
                      # <<allSprintData[j].projectKey, allSprintData[j].teamLabel>>
    /\ \A i, j \in 1..Len(written) : i # j => written[i] # written[j]

-----------------------------------------------------------------------------
(* Further claims about generateRecommendations *)

\* C27: whatever the provider answers, generateRecommendations returns at
\* least one recommendation.
C27_NeverEmpty ==
    pc = "recommended" => Len(recommendations) >= 1

-----------------------------------------------------------------------------
(* Further claims about the presentation *)

-----------------------------------------------------------------------------
(* Specification of the summary of one entity over issue lists with up to     *)
(* ManyDone completed issues                                                  *)

InitWork ==
    /\ pc = "start"
    /\ issues \in {ListIssues(d, b, q) : d \in 0..ManyDone, b \in 0..2, q \in {0, 1}} \ {<<>>}
    /\ metrics = NoMetrics
    /\ allSummaries = <<>>
    /\ summary = [projectKey |-> Proj, teamLabel |-> AllTeams]
    /\ InitOutputs

NextWork ==
    \/ CalculateMetrics
    \/ AnalyzeSprintHealth
    \/ ExtractAccomplishments
    \/ RequestRecommendations
    \/ ReceiveRecommendationsOfRun
    \/ GenerateSummary

SpecWork == InitWork /\ [][NextWork]_vars

\* C29: in the summary of an entity, whatTheTeamWorkedOn.completedWork equals
\* sprintHealthMetrics.completedIssues, the number of completed issues of the
\* sprint.
C29_CompletedWork ==
    pc = "summary" =>
        /\ allSummaries[1].completedWork = allSummaries[1].sprintHealthMetrics.completedIssues
        /\ allSummaries[1].completedWork
              = Cardinality({i \in 1..Len(issues) : issues[i].statusCategory = "Done"})

-----------------------------------------------------------------------------
(* The other two copies of the rule table *)

\* A copy of the table whose velocity threshold has drifted to 70.
generateRecommendationsBelow70(m) ==
    LET fired ==
            (IF m.velocityPercentage < 700
             THEN <<Rec("Velocity", "High",
                        Wording("Consider reducing sprint commitment or identifying impediments affecting team velocity", 0))>>
             ELSE <<>>)
            \o (IF m.blockedIssues > 0
                THEN <<Rec("Blockers", "High",
                           Wording("Address N blocked issue(s) immediately to prevent future sprint delays",
                                   m.blockedIssues))>>
                ELSE <<>>)
            \o (IF m.inProgressIssues > m.completedIssues
                THEN <<Rec("WIP Limit", "Medium",
                           Wording("Too much work in progress. Consider implementing WIP limits to improve flow", 0))>>
                ELSE <<>>)
            \o (IF m.todoIssues > 0
                THEN <<Rec("Sprint Planning", "Medium",
                           Wording("N issue(s) not started. Review sprint planning and capacity",
                                   m.todoIssues))>>
                ELSE <<>>)
    IN  IF Len(fired) = 0
        THEN <<Rec("General", "Low",
                   Wording("Sprint executed well. Continue current practices and look for incremental improvements", 0))>>
        ELSE fired

\* SprintDataCollector.generateRecommendations(metrics, healthAnalysis)
generateRecommendations(m) ==
    LET fired ==
            (IF m.velocityPercentage < 800
             THEN <<Rec("Velocity", "High",
                        Wording("Consider reducing sprint commitment or identifying impediments affecting team velocity", 0))>>
             ELSE <<>>)
            \o (IF m.blockedIssues > 0
                THEN <<Rec("Blockers", "High",
                           Wording("Address N blocked issue(s) immediately to prevent future sprint delays",
                                   m.blockedIssues))>>
                ELSE <<>>)
            \o (IF m.inProgressIssues > m.completedIssues
                THEN <<Rec("WIP Limit", "Medium",
                           Wording("Too much work in progress. Consider implementing WIP limits to improve flow", 0))>>
                ELSE <<>>)
            \o (IF m.todoIssues > 0
                THEN <<Rec("Sprint Planning", "Medium",
                           Wording("N issue(s) not started. Review sprint planning and capacity",
                                   m.todoIssues))>>
                ELSE <<>>)
    IN  IF Len(fired) = 0
        THEN <<Rec("General", "Low",
                   Wording("Sprint executed well. Continue current practices and look for incremental improvements", 0))>>
        ELSE fired

\* generateFallbackRecommendations of the OpenRouter version of LLMRecommendationsGenerator
generateFallbackRecommendationsOpenRouter(m) ==
    LET fired ==
            (IF m.velocityPercentage < 800
             THEN <<Rec("Velocity", "High",
                        Wording("Consider reducing sprint commitment or identifying impediments affecting team velocity", 0))>>
             ELSE <<>>)
            \o (IF m.blockedIssues > 0
                THEN <<Rec("Blockers", "High",
                           Wording("Address N blocked issue(s) immediately to prevent future sprint delays",
                                   m.blockedIssues))>>
                ELSE <<>>)
            \o (IF m.inProgressIssues > m.completedIssues
                THEN <<Rec("WIP Limit", "Medium",
                           Wording("Too much work in progress. Consider implementing WIP limits to improve flow", 0))>>
                ELSE <<>>)
            \o (IF m.todoIssues > 0
                THEN <<Rec("Sprint Planning", "Medium",
                           Wording("N issue(s) not started. Review sprint planning and capacity",
                                   m.todoIssues))>>
                ELSE <<>>)
    IN  IF Len(fired) = 0
        THEN <<Rec("General", "Low",
                   Wording("Sprint executed well. Continue current practices and look for incremental improvements", 0))>>
        ELSE fired

\* A call of one copy of the table with the metrics of the entity.
ApplyRules(copy, result) ==
    /\ pc = "extracted"
    /\ recommendations' = result
    /\ pc' = copy
    /\ UNCHANGED <<issues, metrics, healthAnalysis, accomplishments, llmReply, llmCalls,
                   allSummaries, combinedSummary, summary, written>>
    /\ UNCHANGED <<allMetrics, outstanding, runVars>>

RulesOfCollector == ApplyRules("rules.collector", generateRecommendations(metrics))
RulesOfOpenRouter ==
    ApplyRules("rules.openrouter", generateFallbackRecommendationsOpenRouter(metrics))
RulesOfProvider == ApplyRules("rules.provider", generateFallbackRecommendations(metrics))

NextRules == RulesOfCollector \/ RulesOfOpenRouter \/ RulesOfProvider

SpecRules == InitRecommend /\ [][NextRules]_vars

\* C30: for every metrics record the three copies of the rule table return the
\* same entries (category, priority, recommendation) in the same order.
C30_RuleTablesAgree ==
    pc \in {"rules.collector", "rules.openrouter", "rules.provider"} =>
        /\ recommendations = generateRecommendations(metrics)
        /\ recommendations = generateFallbackRecommendationsOpenRouter(metrics)
        /\ recommendations = generateFallbackRecommendations(metrics)

\* The collector's copy on a velocity of 79.9 with a blocked issue and an
\* issue not started.
C30_Witness ==
    /\ pc = "rules.collector"
    /\ metrics.velocityPercentage = 799
    /\ metrics.blockedIssues = 1
    /\ metrics.inProgressIssues = 0
    /\ metrics.todoIssues = 1
    /\ Len(recommendations) = 3
    /\ recommendations[1].category = "Velocity"
    /\ recommendations[3].category = "Sprint Planning"

====
